---- MODULE Spec2Model ----
(***************************************************************************)
(* Token lifecycle and guards of righthand-ops-hub: AuthService            *)
(* (auth.service.ts), the hooks authGuard, optionalAuthGuard and           *)
(* requireRoles (middleware/authGuard.ts), the chain of GET /audit         *)
(* (audit.controller.ts), and the handlers of /auth/register, /auth/login, *)
(* /auth/me, /auth/logout and /auth/refresh (auth.controller.ts) behind    *)
(* the hooks their routes are registered with.                             *)
(*                                                                         *)
(* Strings the code splits, compares or searches are sequences of atoms.   *)
(*   - an Authorization header or a token string is a sequence of atoms;   *)
(*     an atom is a space, a run of other characters ("Bearer", "abc") or  *)
(*     one whole compact JWT (header.payload.signature);                   *)
(*   - an error message is a sequence of words;                            *)
(*   - a TTL string is a sequence of characters.                           *)
(* Time is the clock in whole seconds, as jsonwebtoken reads it            *)
(* (Math.floor(Date.now() / 1000)).                                        *)
(***************************************************************************)
EXTENDS Integers, Sequences, FiniteSets, TLC

VARIABLES
    env,      \* process.env at module load: JWT_EXPIRES_IN, JWT_REFRESH_EXPIRES_IN
    now,      \* the clock, in seconds
    users,    \* the Credential Store: id -> [email, password, role]
    storeUp,  \* whether the Credential Store answers queries
    pairs,    \* every token pair the service has signed so far, with its identity
    reqs,     \* the requests in flight, one record per slot
    probe,    \* the last direct call of AuthService.verifyToken and its outcome
    call,     \* the last direct call of another function of the code: fn, input, output
    served    \* what the clients have seen answered with 200: the tokens
              \* they logged out with, and those they refreshed with, as
              \* records [route, token, at]

vars == <<env, now, users, storeUp, pairs, reqs, probe, call, served>>

(***************************************************************************)
(* Bounds of the model.                                                    *)
(***************************************************************************)
\* instants observed after each notable time (0, the two token lifetimes)
MaxSkew == 0
\* the last instant at which a login signs tokens (a refresh signs at any time)
MaxLoginAt == 0
\* token pairs signed in one behaviour
MaxPairs == 2
\* requests in flight at once
NumReqs == 1
\* the longest list of roles given to requireRoles
MaxRoles == 2
\* registrations by the clients, done or under way
MaxRegistered == 2

Reqs == DOMAIN reqs

(***************************************************************************)
(* Characters and numbers.                                                 *)
(***************************************************************************)
Digits == <<"0", "1", "2", "3", "4", "5", "6", "7", "8", "9">>

IsDigit(c) == \E i \in 1..10 : Digits[i] = c

DigitVal(c) == (CHOOSE i \in 1..10 : Digits[i] = c) - 1

\* the length of the longest prefix of s made of digits
RECURSIVE DigitPrefix(_)
DigitPrefix(s) ==
    IF s = <<>> \/ ~IsDigit(Head(s)) THEN 0 ELSE 1 + DigitPrefix(Tail(s))

\* parseInt of a non-empty sequence of digits
RECURSIVE ParseInt(_)
ParseInt(s) ==
    IF s = <<>> THEN 0
    ELSE ParseInt(SubSeq(s, 1, Len(s) - 1)) * 10 + DigitVal(s[Len(s)])

(***************************************************************************)
(* Configuration: auth.service.ts lines 5-7.                               *)
(***************************************************************************)
\* an environment variable that is not set (or set to ''): both are falsy
Unset == <<>>

JWT_EXPIRES_IN == IF env.JWT_EXPIRES_IN = Unset THEN <<"2", "4", "h">> ELSE env.JWT_EXPIRES_IN

JWT_REFRESH_EXPIRES_IN ==
    IF env.JWT_REFRESH_EXPIRES_IN = Unset THEN <<"7", "d">> ELSE env.JWT_REFRESH_EXPIRES_IN

ISSUER == "righthand-ops-hub"

AUD_USERS == "righthand-ops-hub-users"

AUD_REFRESH == "righthand-ops-hub-refresh"

\* the environments the service is started in
EnvChoices ==
    { [JWT_EXPIRES_IN |-> Unset, JWT_REFRESH_EXPIRES_IN |-> Unset],
      [JWT_EXPIRES_IN |-> <<"2", "s">>, JWT_REFRESH_EXPIRES_IN |-> <<"1", "m">>] }

(***************************************************************************)
(* jsonwebtoken's reading of expiresIn (the ms package): a run of digits   *)
(* and an optional unit, in milliseconds; -1 when ms() returns undefined.  *)
(* Fractions, signs, spaces, years and the long unit names are not among   *)
(* the modelled inputs.                                                    *)
(***************************************************************************)
MsUnit(u) ==
    CASE u = <<>> -> 1
      [] u = <<"m", "s">> -> 1
      [] u = <<"s">> -> 1000
      [] u = <<"m">> -> 60000
      [] u = <<"h">> -> 3600000
      [] u = <<"d">> -> 86400000
      [] u = <<"w">> -> 604800000
      [] OTHER -> -1

Ms(str) ==
    LET n == DigitPrefix(str)
        unit == SubSeq(str, n + 1, Len(str))
    IN  IF n = 0 \/ MsUnit(unit) = -1 THEN -1
        ELSE ParseInt(SubSeq(str, 1, n)) * MsUnit(unit)

\* timespan(expiresIn, iat) = Math.floor(iat + ms / 1000), as an offset from iat
Lifetime(str) == Ms(str) \div 1000

(***************************************************************************)
(* AuthService.getTokenExpirationTime: /^(\d+)([smhd])$/.                  *)
(***************************************************************************)
timeUnits(u) ==
    CASE u = "s" -> 1
      [] u = "m" -> 60
      [] u = "h" -> 3600
      [] u = "d" -> 86400

\* a slip in the pattern: the closing anchor is missing
getTokenExpirationTime_Unanchored(expiresIn) ==
    LET n == DigitPrefix(expiresIn)
    IN  IF n >= 1 /\ Len(expiresIn) >= n + 1 /\ expiresIn[n + 1] \in {"s", "m", "h", "d"}
        THEN ParseInt(SubSeq(expiresIn, 1, n)) * timeUnits(expiresIn[n + 1])
        ELSE 86400

getTokenExpirationTime(expiresIn) ==
    LET n == DigitPrefix(expiresIn)
    IN  IF n >= 1 /\ Len(expiresIn) = n + 1 /\ expiresIn[n + 1] \in {"s", "m", "h", "d"}
        THEN ParseInt(SubSeq(expiresIn, 1, n)) * timeUnits(expiresIn[n + 1])
        ELSE 86400

(***************************************************************************)
(* Atoms of header and token strings.                                      *)
(***************************************************************************)
Txt(w) ==
    [kind |-> "txt", text |-> w, userId |-> 0, email |-> "", role |-> "",
     iat |-> 0, exp |-> 0, iss |-> "", aud |-> "", sig |-> ""]

\* a compact JWT; sig is "good" when the HMAC was made with JWT_SECRET over
\* exactly these claims
Jwt(userId, email, role, iat, exp, iss, aud, sig) ==
    [kind |-> "jwt", text |-> "", userId |-> userId, email |-> email, role |-> role,
     iat |-> iat, exp |-> exp, iss |-> iss, aud |-> aud, sig |-> sig]

Space == Txt(" ")

\* String.prototype.split(' '): the runs between the spaces, empty runs included
RECURSIVE SplitSpace(_)
SplitSpace(s) ==
    IF s = <<>> THEN << <<>> >>
    ELSE LET rest == SplitSpace(Tail(s))
         IN  IF Head(s) = Space THEN << <<>> >> \o rest
             ELSE << <<Head(s)>> \o Head(rest) >> \o Tail(rest)

\* String.prototype.includes on messages, word by word
Includes(msg, sub) ==
    \E i \in 0..(Len(msg) - Len(sub)) : SubSeq(msg, i + 1, i + Len(sub)) = sub

(***************************************************************************)
(* Errors: what is thrown, with its message.                               *)
(***************************************************************************)
Err(words) == [isError |-> TRUE, message |-> words]

NoErr == [isError |-> FALSE, message |-> <<>>]

MsgExpired == <<"Token", "has", "expired">>

MsgInvalid == <<"Invalid", "token">>

MsgVerifyFailed == <<"Token", "verification", "failed">>

MsgHeaderRequired == <<"Authorization", "header", "is", "required">>

MsgHeaderFormat ==
    <<"Invalid", "authorization", "header", "format.", "Expected:", "Bearer", "<token>">>

MsgUserNotFound == <<"User", "not", "found">>

MsgInvalidRefresh == <<"Invalid", "refresh", "token">>

\* what prisma rejects with while the database is unreachable: an Error in
\* every case, whose text depends on the failure
StoreErrors ==
    { Err(<<"Invalid", "prisma.user.findUnique()", "invocation:", "Can't", "reach",
            "database", "server">>),
      Err(<<"Timed", "out", "fetching", "a", "new", "connection">>) }

(***************************************************************************)
(* Signing: generateAccessToken, generateRefreshToken, generateTokens.     *)
(***************************************************************************)
NoPayload ==
    [userId |-> 0, email |-> "", role |-> "", iat |-> 0, exp |-> 0, iss |-> "", aud |-> ""]

\* jwt.sign(payload, JWT_SECRET, {expiresIn, issuer, audience}) at time t
JwtSign(userId, email, role, expiresIn, iss, aud, t) ==
    IF Ms(expiresIn) = -1
    THEN [ok |-> FALSE, token |-> <<>>]
    ELSE [ok |-> TRUE,
          token |-> << Jwt(userId, email, role, t, t + Lifetime(expiresIn), iss, aud, "good") >>]

\* a slip in the payload: email and role exchanged
generateAccessToken_SwapClaims(user, t) ==
    JwtSign(user.id, user.role, user.email, JWT_EXPIRES_IN, ISSUER, AUD_USERS, t)

generateAccessToken(user, t) ==
    JwtSign(user.id, user.email, user.role, JWT_EXPIRES_IN, ISSUER, AUD_USERS, t)

generateRefreshToken(user, t) ==
    JwtSign(user.id, user.email, user.role, JWT_REFRESH_EXPIRES_IN, ISSUER, AUD_REFRESH, t)

NoTokens == [accessToken |-> <<>>, refreshToken |-> <<>>, expiresIn |-> 0, tokenType |-> ""]

generateTokens(user, t) ==
    LET a == generateAccessToken(user, t)
        r == generateRefreshToken(user, t)
    IN  IF a.ok /\ r.ok
        THEN [ok |-> TRUE,
              tokens |-> [accessToken |-> a.token, refreshToken |-> r.token,
                          expiresIn |-> getTokenExpirationTime(JWT_EXPIRES_IN),
                          tokenType |-> "Bearer"]]
        ELSE [ok |-> FALSE, tokens |-> NoTokens]

(***************************************************************************)
(* Verification: jwt.verify and AuthService.verifyToken.                   *)
(***************************************************************************)
PayloadOf(a) ==
    [userId |-> a.userId, email |-> a.email, role |-> a.role, iat |-> a.iat,
     exp |-> a.exp, iss |-> a.iss, aud |-> a.aud]

\* a slip in the expiry test: the instant of expiry itself still accepted
JwtVerify_LateExpiry(token, issuer, audiences, t) ==
    LET bad(kind) == [ok |-> FALSE, payload |-> NoPayload, kind |-> kind]
    IN  IF token = <<>> THEN bad("JsonWebTokenError")
        ELSE IF Len(token) # 1 \/ token[1].kind # "jwt" THEN bad("JsonWebTokenError")
        ELSE IF token[1].sig # "good" THEN bad("JsonWebTokenError")
        ELSE IF t > token[1].exp THEN bad("TokenExpiredError")
        ELSE IF token[1].aud \notin audiences THEN bad("JsonWebTokenError")
        ELSE IF token[1].iss # issuer THEN bad("JsonWebTokenError")
        ELSE [ok |-> TRUE, payload |-> PayloadOf(token[1]), kind |-> "none"]

\* jwt.verify(token, JWT_SECRET, {issuer, audience}) at time t: the checks in
\* jsonwebtoken's order; kind is the class of the error thrown
\* a slip in the library: audience and issuer are tested before the expiry
JwtVerify_ClaimsFirst(token, issuer, audiences, t) ==
    LET bad(kind) == [ok |-> FALSE, payload |-> NoPayload, kind |-> kind]
    IN  IF token = <<>> THEN bad("JsonWebTokenError")
        ELSE IF Len(token) # 1 \/ token[1].kind # "jwt" THEN bad("JsonWebTokenError")
        ELSE IF token[1].sig # "good" THEN bad("JsonWebTokenError")
        ELSE IF token[1].aud \notin audiences THEN bad("JsonWebTokenError")
        ELSE IF token[1].iss # issuer THEN bad("JsonWebTokenError")
        ELSE IF t >= token[1].exp THEN bad("TokenExpiredError")
        ELSE [ok |-> TRUE, payload |-> PayloadOf(token[1]), kind |-> "none"]

JwtVerify(token, issuer, audiences, t) ==
    LET bad(kind) == [ok |-> FALSE, payload |-> NoPayload, kind |-> kind]
    IN  IF token = <<>> THEN bad("JsonWebTokenError")                 \* jwt must be provided
        ELSE IF Len(token) # 1 \/ token[1].kind # "jwt"
             THEN bad("JsonWebTokenError")                             \* jwt malformed
        ELSE IF token[1].sig # "good" THEN bad("JsonWebTokenError")    \* invalid signature
        ELSE IF t >= token[1].exp THEN bad("TokenExpiredError")        \* jwt expired
        ELSE IF token[1].aud \notin audiences THEN bad("JsonWebTokenError")
        ELSE IF token[1].iss # issuer THEN bad("JsonWebTokenError")
        ELSE [ok |-> TRUE, payload |-> PayloadOf(token[1]), kind |-> "none"]

\* a slip in the catch block: the superclass tested first
verifyTokenCatch_SuperclassFirst(kind) ==
    IF kind \in {"JsonWebTokenError", "TokenExpiredError", "NotBeforeError"}
    THEN Err(MsgInvalid)
    ELSE IF kind = "TokenExpiredError" THEN Err(MsgExpired)
    ELSE Err(MsgVerifyFailed)

\* the catch block of verifyToken: TokenExpiredError is tested before its
\* superclass JsonWebTokenError
verifyTokenCatch(kind) ==
    IF kind = "TokenExpiredError" THEN Err(MsgExpired)
    ELSE IF kind \in {"JsonWebTokenError", "TokenExpiredError", "NotBeforeError"}
         THEN Err(MsgInvalid)
    ELSE Err(MsgVerifyFailed)

\* a slip in the service: email and role are read from the user's row as it
\* is now, not from the token
verifyToken_FromStore(token, t) ==
    LET v == JwtVerify(token, ISSUER, {AUD_USERS, AUD_REFRESH}, t)
        id == v.payload.userId
    IN  IF v.ok
        THEN [ok |-> TRUE,
              payload |-> IF id \in DOMAIN users
                          THEN [v.payload EXCEPT !.email = users[id].email,
                                                 !.role = users[id].role]
                          ELSE v.payload,
              err |-> NoErr]
        ELSE [ok |-> FALSE, payload |-> NoPayload, err |-> verifyTokenCatch(v.kind)]

\* the tokens whose logout the clients have seen answered with 200
loggedOut == { x.token : x \in { y \in served : y.route = "logout" } }

\* the tokens the clients have seen a refresh answered with 200 for
refreshed == { x.token : x \in { y \in served : y.route = "refresh" } }

\* a slip in the service: a token is good for one refresh only
verifyToken_SingleUse(token, t) ==
    LET v == JwtVerify(token, ISSUER, {AUD_USERS, AUD_REFRESH}, t)
    IN  IF v.ok /\ token \notin refreshed
        THEN [ok |-> TRUE, payload |-> v.payload, err |-> NoErr]
        ELSE [ok |-> FALSE, payload |-> NoPayload, err |-> Err(MsgInvalid)]

\* a slip in the service: a token that was logged out is refused
verifyToken_Blacklisted(token, t) ==
    LET v == JwtVerify(token, ISSUER, {AUD_USERS, AUD_REFRESH}, t)
    IN  IF v.ok /\ token \notin loggedOut
        THEN [ok |-> TRUE, payload |-> v.payload, err |-> NoErr]
        ELSE [ok |-> FALSE, payload |-> NoPayload, err |-> Err(MsgInvalid)]

verifyToken(token, t) ==
    LET v == JwtVerify(token, ISSUER, {AUD_USERS, AUD_REFRESH}, t)
    IN  IF v.ok THEN [ok |-> TRUE, payload |-> v.payload, err |-> NoErr]
        ELSE [ok |-> FALSE, payload |-> NoPayload, err |-> verifyTokenCatch(v.kind)]

(***************************************************************************)
(* AuthService.extractTokenFromHeader.                                     *)
(***************************************************************************)
extractTokenFromHeader(authHeader) ==
    IF authHeader = <<>>
    THEN [ok |-> FALSE, token |-> <<>>, err |-> Err(MsgHeaderRequired)]
    ELSE LET parts == SplitSpace(authHeader)
         IN  IF Len(parts) # 2 \/ parts[1] # <<Txt("Bearer")>>
             THEN [ok |-> FALSE, token |-> <<>>, err |-> Err(MsgHeaderFormat)]
             ELSE [ok |-> TRUE, token |-> parts[2], err |-> NoErr]

(***************************************************************************)
(* The Credential Store (prisma.user) and the clock.                       *)
(***************************************************************************)
UserIds == 1..2

InitUsers ==
    [i \in UserIds |->
        IF i = 1 THEN [email |-> "admin@ops.io", password |-> "hash-1", role |-> "admin"]
        ELSE [email |-> "viewer@ops.io", password |-> "hash-2", role |-> "viewer"]]

\* the {id, email, role} object the callers of the service build from a row
Identity(id) == [id |-> id, email |-> users[id].email, role |-> users[id].role]

\* the instants at which the system is observed: around time 0 and around
\* the expiry of tokens signed then
Instants ==
    { b + k : b \in {0, Lifetime(JWT_EXPIRES_IN), Lifetime(JWT_REFRESH_EXPIRES_IN)},
              k \in -1..MaxSkew } \cap Nat

(***************************************************************************)
(* Requests.                                                               *)
(***************************************************************************)
Absent == [present |-> FALSE, value |-> <<>>]

Present(s) == [present |-> TRUE, value |-> s]

NoUser == [attached |-> FALSE, id |-> 0, email |-> "", role |-> ""]

NoReply == [sent |-> FALSE, status |-> 0, error |-> "", message |-> ""]

Reply(status, error, message) ==
    [sent |-> TRUE, status |-> status, error |-> error, message |-> message]

\* request.body of POST /auth/login: '' stands for a field that is missing or empty
NoBody == [email |-> "", password |-> ""]

\* the row a handler holds after findUnique
NoRow == [id |-> 0, email |-> "", password |-> "", role |-> ""]

IdleReq ==
    [pc |-> "idle", route |-> "none", authorization |-> Absent, refreshToken |-> Absent,
     at |-> 0, decoded |-> NoPayload, gone |-> FALSE, lookup |-> "none", existed |-> FALSE,
     user |-> NoUser, userSet |-> FALSE, reply |-> NoReply, sends |-> 0,
     tokens |-> NoTokens, calls |-> <<>>, ran |-> <<>>,
     body |-> NoBody, row |-> NoRow, generated |-> NoTokens,
     second |-> "none", secondExisted |-> FALSE, replyUser |-> NoRow]

\* body is the JSON body of a login; row is the user row the handler read,
\* generated the pair it holds in a local variable, tokens the pair in the reply;
\* second is how the handler's second store operation settled (the update of
\* a login, the lookup of GET /auth/me), secondExisted whether the row was
\* there then; replyUser is the user object of the response body;
\* userSet tells whether request.user has been assigned (a user or null);
\* sends counts the calls of reply.send; the history of the request is in
\* calls (the service and store functions called, in order) and ran (the
\* hooks that have returned and the handler, in order)

\* reply.code(status).send(body)
Send(q, rep) == [q EXCEPT !.reply = rep, !.sends = @ + 1]

\* a slip in the hook runner: the chain goes on after a reply was sent
HookChainContinues_AfterSend(q) == TRUE

\* Fastify's hook runner when a hook has returned: the next hook, or the
\* handler, runs unless the reply has been sent
HookChainContinues(q) == ~q.reply.sent

\* the hook named hook returns, having left the request as q
HookEnd(q, hook, nextPc) ==
    [q EXCEPT !.ran = Append(@, hook),
              !.pc = IF HookChainContinues(q) THEN nextPc ELSE "done"]

\* a new request takes the lowest free slot
FreeSlot(r) == reqs[r].pc = "idle" /\ \A q \in Reqs : q < r => reqs[q].pc # "idle"

\* a token as a client may alter it: re-signed with another key, or issued
\* for another issuer or audience
Tampered(a) == [a EXCEPT !.sig = "bad"]

\* every token string signed so far
issued == UNION { {p.tokens.accessToken, p.tokens.refreshToken} : p \in pairs }

IssuedAtoms == { s[1] : s \in issued }

\* the token strings a client sends
ClientTokens ==
    issued \cup { <<Tampered(a)>> : a \in IssuedAtoms } \cup { <<Txt("abc")>> }

\* the Authorization headers a client sends
ClientHeaders ==
    { Absent, Present(<<>>), Present(<<Txt("abc")>>),
      Present(<<Txt("Basic"), Space, Txt("abc")>>),
      Present(<<Txt("bearer"), Space, Txt("abc")>>),
      Present(<<Txt("Bearer"), Space, Space, Txt("abc")>>),
      Present(<<Txt("Bearer"), Space>>) }
    \cup { Present(<<Txt("Bearer"), Space>> \o s) : s \in ClientTokens }

(***************************************************************************)
(* authGuard: its catch block, and its two steps around the await.         *)
(***************************************************************************)
\* a slip in the catch block: no branch for an expired token
authGuardCatch_NoExpiredBranch(err) ==
    IF err.isError
    THEN IF Includes(err.message, <<"Invalid">>)
         THEN Reply(401, "Invalid token", "The provided token is invalid. Please login again.")
         ELSE IF Includes(err.message, <<"User", "not", "found">>)
         THEN Reply(401, "User not found",
                    "The user associated with this token no longer exists.")
         ELSE Reply(401, "Authentication failed",
                    "Unable to authenticate request. Please login again.")
    ELSE Reply(500, "Internal server error",
               "An unexpected error occurred during authentication.")

\* a slip in the catch block: no branch for a user that is gone
authGuardCatch_NoUserBranch(err) ==
    IF err.isError
    THEN IF Includes(err.message, <<"expired">>)
         THEN Reply(401, "Token expired", "Your session has expired. Please login again.")
         ELSE IF Includes(err.message, <<"Invalid">>)
         THEN Reply(401, "Invalid token", "The provided token is invalid. Please login again.")
         ELSE Reply(401, "Authentication failed",
                    "Unable to authenticate request. Please login again.")
    ELSE Reply(500, "Internal server error",
               "An unexpected error occurred during authentication.")

authGuardCatch(err) ==
    IF err.isError
    THEN IF Includes(err.message, <<"expired">>)
         THEN Reply(401, "Token expired", "Your session has expired. Please login again.")
         ELSE IF Includes(err.message, <<"Invalid">>)
         THEN Reply(401, "Invalid token", "The provided token is invalid. Please login again.")
         ELSE IF Includes(err.message, <<"User", "not", "found">>)
         THEN Reply(401, "User not found",
                    "The user associated with this token no longer exists.")
         ELSE Reply(401, "Authentication failed",
                    "Unable to authenticate request. Please login again.")
    ELSE Reply(500, "Internal server error",
               "An unexpected error occurred during authentication.")

\* prisma.user.findUnique({where: {id}}) as it settles: a row, null, or a
\* rejection with one of StoreErrors
FindOutcomes(id) ==
    IF ~storeUp THEN { [kind |-> "error", err |-> e] : e \in StoreErrors }
    ELSE IF id \in DOMAIN users THEN { [kind |-> "found", err |-> NoErr] }
    ELSE { [kind |-> "absent", err |-> NoErr] }

\* a slip after the await: the null row is returned instead of thrown on
getUserFromTokenResolve_NoNullCheck(id, found) ==
    IF found.kind = "error" THEN [ok |-> FALSE, user |-> NoUser, err |-> found.err]
    ELSE IF found.kind = "absent" THEN [ok |-> TRUE, user |-> NoUser, err |-> NoErr]
    ELSE [ok |-> TRUE, err |-> NoErr,
          user |-> [attached |-> TRUE, id |-> id, email |-> users[id].email,
                    role |-> users[id].role]]

\* getUserFromToken after the await: the user object, or the error thrown
getUserFromTokenResolve(id, found) ==
    IF found.kind = "error" THEN [ok |-> FALSE, user |-> NoUser, err |-> found.err]
    ELSE IF found.kind = "absent"
         THEN [ok |-> FALSE, user |-> NoUser, err |-> Err(MsgUserNotFound)]
    ELSE [ok |-> TRUE, err |-> NoErr,
          user |-> [attached |-> TRUE, id |-> id, email |-> users[id].email,
                    role |-> users[id].role]]

\* a slip at the top of the guard: the early return for a missing header is gone
HeaderMissing_NoEarlyReturn(h) == FALSE

\* !request.headers.authorization: no header, or an empty one
HeaderMissing(h) == ~h.present \/ h.value = <<>>

\* authGuard up to the await inside getUserFromToken
authGuardEnter(q, nextPc) ==
    LET h == q.authorization
        x == extractTokenFromHeader(h.value)
        v == verifyToken(x.token, now)
    IN  IF HeaderMissing(h)
        THEN HookEnd(Send(q, Reply(401, "Authorization header is required",
                          "Please provide a valid JWT token in the Authorization header")),
                     "authGuard", nextPc)
        ELSE IF ~x.ok
        THEN HookEnd(Send([q EXCEPT !.calls = @ \o <<"extractTokenFromHeader">>],
                          authGuardCatch(x.err)),
                     "authGuard", nextPc)
        ELSE IF ~v.ok
        THEN HookEnd(Send([q EXCEPT !.calls = @ \o <<"extractTokenFromHeader", "verifyToken">>],
                          authGuardCatch(v.err)),
                     "authGuard", nextPc)
        ELSE [q EXCEPT !.pc = "await", !.decoded = v.payload,
                       !.gone = (v.payload.userId \notin DOMAIN users),
                       !.calls = @ \o <<"extractTokenFromHeader", "verifyToken", "findUnique">>]

\* a slip after the await: the identity attached is the one the token carries
authGuardSettle_FromToken(q, found, nextPc) ==
    LET u == getUserFromTokenResolve(q.decoded.userId, found)
        seen == [q EXCEPT !.lookup = found.kind,
                          !.existed = (q.decoded.userId \in DOMAIN users)]
    IN  IF u.ok
        THEN HookEnd([seen EXCEPT !.user = [attached |-> TRUE, id |-> q.decoded.userId,
                                            email |-> q.decoded.email,
                                            role |-> q.decoded.role],
                                  !.userSet = TRUE], "authGuard", nextPc)
        ELSE HookEnd(Send(seen, authGuardCatch(u.err)), "authGuard", nextPc)

\* authGuard after the await: the identity is attached, or the catch block replies
authGuardSettle(q, found, nextPc) ==
    LET u == getUserFromTokenResolve(q.decoded.userId, found)
        seen == [q EXCEPT !.lookup = found.kind,
                          !.existed = (q.decoded.userId \in DOMAIN users)]
    IN  IF u.ok
        THEN HookEnd([seen EXCEPT !.user = u.user, !.userSet = TRUE], "authGuard", nextPc)
        ELSE HookEnd(Send(seen, authGuardCatch(u.err)), "authGuard", nextPc)

\* a slip in the lookup: it is made synchronously, so a request waits for the
\* lookups of the requests that came before it
AwaitBlocks_Serial(r) == \E o \in Reqs : o < r /\ reqs[o].pc = "await"

\* 'await prisma.user.findUnique(...)' suspends the one request that awaits:
\* no request waits for the lookup of another
AwaitBlocks(r) == FALSE

\* a request arrives at a route whose only hook is authGuard
GuardStart(r, h) ==
    /\ FreeSlot(r)
    /\ reqs' = [reqs EXCEPT ![r] =
          authGuardEnter([IdleReq EXCEPT !.route = "guard", !.authorization = h, !.at = now],
                         "done")]
    /\ UNCHANGED <<env, now, users, storeUp, pairs, probe, call, served>>

\* the store's answer arrives
GuardLookup(r) ==
    /\ reqs[r].pc = "await"
    /\ reqs[r].route = "guard"
    /\ ~AwaitBlocks(r)
    /\ \E found \in FindOutcomes(reqs[r].decoded.userId) :
         reqs' = [reqs EXCEPT ![r] = authGuardSettle(reqs[r], found, "done")]
    /\ UNCHANGED <<env, now, users, storeUp, pairs, probe, call, served>>

(***************************************************************************)
(* optionalAuthGuard: never replies; request.user is the user or null.     *)
(***************************************************************************)
\* a slip in the catch block: the failure is answered as authGuard answers it
optionalAuthGuardCatch_Replies(q, err) == Send(q, authGuardCatch(err))

\* the catch block: request.user = null, whatever was thrown
optionalAuthGuardCatch(q, err) == [q EXCEPT !.user = NoUser, !.userSet = TRUE]

\* optionalAuthGuard up to the await inside getUserFromToken
optionalAuthGuardEnter(q, nextPc) ==
    LET h == q.authorization
        x == extractTokenFromHeader(h.value)
        v == verifyToken(x.token, now)
    IN  IF HeaderMissing(h)
        THEN HookEnd([q EXCEPT !.user = NoUser, !.userSet = TRUE], "optionalAuthGuard", nextPc)
        ELSE IF ~x.ok
        THEN HookEnd(optionalAuthGuardCatch(
                        [q EXCEPT !.calls = @ \o <<"extractTokenFromHeader">>], x.err),
                     "optionalAuthGuard", nextPc)
        ELSE IF ~v.ok
        THEN HookEnd(optionalAuthGuardCatch(
                        [q EXCEPT !.calls = @ \o <<"extractTokenFromHeader", "verifyToken">>],
                        v.err),
                     "optionalAuthGuard", nextPc)
        ELSE [q EXCEPT !.pc = "await", !.decoded = v.payload,
                       !.gone = (v.payload.userId \notin DOMAIN users),
                       !.calls = @ \o <<"extractTokenFromHeader", "verifyToken", "findUnique">>]

\* optionalAuthGuard after the await
optionalAuthGuardSettle(q, found, nextPc) ==
    LET u == getUserFromTokenResolve(q.decoded.userId, found)
        seen == [q EXCEPT !.lookup = found.kind,
                          !.existed = (q.decoded.userId \in DOMAIN users)]
    IN  IF u.ok
        THEN HookEnd([seen EXCEPT !.user = u.user, !.userSet = TRUE],
                     "optionalAuthGuard", nextPc)
        ELSE HookEnd(optionalAuthGuardCatch(seen, u.err), "optionalAuthGuard", nextPc)

\* a request arrives at a route whose only hook is optionalAuthGuard
OptionalStart(r, h) ==
    /\ FreeSlot(r)
    /\ reqs' = [reqs EXCEPT ![r] =
          optionalAuthGuardEnter(
             [IdleReq EXCEPT !.route = "optional", !.authorization = h, !.at = now], "done")]
    /\ UNCHANGED <<env, now, users, storeUp, pairs, probe, call, served>>

OptionalLookup(r) ==
    /\ reqs[r].pc = "await"
    /\ reqs[r].route = "optional"
    /\ \E found \in FindOutcomes(reqs[r].decoded.userId) :
         reqs' = [reqs EXCEPT ![r] = optionalAuthGuardSettle(reqs[r], found, "done")]
    /\ UNCHANGED <<env, now, users, storeUp, pairs, probe, call, served>>

(***************************************************************************)
(* requireRoles(requiredRoles): the hook it returns, and its two shortcuts.*)
(***************************************************************************)
\* Array.prototype.join
RECURSIVE Join(_, _)
Join(list, sep) ==
    IF list = <<>> THEN ""
    ELSE IF Len(list) = 1 THEN list[1]
    ELSE list[1] \o sep \o Join(Tail(list), sep)

\* Array.prototype.includes: strict equality with some element
ArrayIncludes(list, x) == \E i \in 1..Len(list) : list[i] = x

\* a slip in the role test: an admin passes whatever roles are required
requireRoles_Hierarchy(requiredRoles, q) ==
    IF ~q.user.attached
    THEN Send(q, Reply(401, "Authentication required",
                       "You must be logged in to access this resource."))
    ELSE IF ~ArrayIncludes(requiredRoles, q.user.role) /\ q.user.role # "admin"
    THEN Send(q, Reply(403, "Insufficient permissions",
                       "This resource requires one of the following roles: "
                          \o Join(requiredRoles, ", ") \o ". Your role: " \o q.user.role))
    ELSE q

\* the body of the hook: the request as the hook leaves it
requireRoles(requiredRoles, q) ==
    IF ~q.user.attached
    THEN Send(q, Reply(401, "Authentication required",
                       "You must be logged in to access this resource."))
    ELSE IF ~ArrayIncludes(requiredRoles, q.user.role)
    THEN Send(q, Reply(403, "Insufficient permissions",
                       "This resource requires one of the following roles: "
                          \o Join(requiredRoles, ", ") \o ". Your role: " \o q.user.role))
    ELSE q

requireAdmin(q) == requireRoles(<<"admin">>, q)

requireAdminOrModerator(q) == requireRoles(<<"admin", "moderator">>, q)

\* the role names the hooks are tried with: those of the code, one the code
\* does not know, and one that differs in case only
RoleNames == {"admin", "moderator", "viewer", "editor", "Admin"}

RoleLists == UNION { [1..n -> RoleNames] : n \in 0..MaxRoles }

\* what request.user holds when a role hook runs: nothing, null, or a user
RoleCallers ==
    { [IdleReq EXCEPT !.route = "roles"],
      [IdleReq EXCEPT !.route = "roles", !.userSet = TRUE] }
    \cup { [IdleReq EXCEPT !.route = "roles", !.userSet = TRUE,
                           !.user = [attached |-> TRUE, id |-> 1,
                                     email |-> "admin@ops.io", role |-> ro]] :
            ro \in RoleNames }

\* the TTL strings getTokenExpirationTime is tried with
TtlInputs ==
    { <<"2", "4", "h">>, <<"7", "d">>, <<"b", "o", "g", "u", "s">>, <<"2", "s">>,
      <<"1", "m">>, <<"1", "5", "m">>, <<"0", "1", "0", "h">>, <<"0", "s">>, <<>>,
      <<"2", "4">>, <<"h">>, <<"2", "4", "h", "h">>, <<"1", "w">>, <<"2", "4", "H">>,
      <<" ", "2", "4", "h">>, <<"2", "4", " ", "h">>, <<"2", "4", "h", " ">>,
      <<"1", ".", "5", "h">>, <<"-", "1", "h">>, <<"1", "0", "m", "s">>,
      <<"1", "y">> }

\* a direct call of getTokenExpirationTime
TtlCall(str) ==
    /\ call' = [fn |-> "getTokenExpirationTime", input |-> str,
                output |-> getTokenExpirationTime(str)]
    /\ UNCHANGED <<env, now, users, storeUp, pairs, reqs, probe, served>>

\* the header values extractTokenFromHeader is tried with: those a client
\* sends, and more shapes around 'Bearer <token>'
HeaderInputs ==
    { h.value : h \in ClientHeaders }
    \cup { <<Txt("Bearer"), Space, Txt("abc")>>,
           <<Txt("Bearer"), Space, Txt("a"), Space, Txt("b")>>,
           <<Txt("Bearer")>>,
           <<Txt("BEARER"), Space, Txt("abc")>>,
           <<Space, Txt("Bearer"), Space, Txt("abc")>>,
           <<Txt("Bearer"), Space, Txt("abc"), Space>>,
           <<Txt("Bearerabc")>>,
           <<Space>> }

\* a direct call of extractTokenFromHeader
HeaderCall(h) ==
    /\ call' = [fn |-> "extractTokenFromHeader", input |-> h,
                output |-> extractTokenFromHeader(h)]
    /\ UNCHANGED <<env, now, users, storeUp, pairs, reqs, probe, served>>

\* a direct call of the hook requireRoles(requiredRoles) on a request
RolesCall(requiredRoles, q) ==
    /\ call' = [fn |-> "requireRoles",
                input |-> [requiredRoles |-> requiredRoles, request |-> q],
                output |-> requireRoles(requiredRoles, q)]
    /\ UNCHANGED <<env, now, users, storeUp, pairs, reqs, probe, served>>

(***************************************************************************)
(* GET /audit: preHandler [authGuard, requireAdmin], then the handler.     *)
(***************************************************************************)
AuditStart(r, h) ==
    /\ FreeSlot(r)
    /\ reqs' = [reqs EXCEPT ![r] =
          authGuardEnter([IdleReq EXCEPT !.route = "audit", !.authorization = h, !.at = now],
                         "requireAdmin")]
    /\ UNCHANGED <<env, now, users, storeUp, pairs, probe, call, served>>

AuditLookup(r) ==
    /\ reqs[r].pc = "await"
    /\ reqs[r].route = "audit"
    /\ \E found \in FindOutcomes(reqs[r].decoded.userId) :
         reqs' = [reqs EXCEPT ![r] = authGuardSettle(reqs[r], found, "requireAdmin")]
    /\ UNCHANGED <<env, now, users, storeUp, pairs, probe, call, served>>

\* the second hook of the chain
AuditRole(r) ==
    /\ reqs[r].pc = "requireAdmin"
    /\ reqs[r].route = "audit"
    /\ reqs' = [reqs EXCEPT ![r] = HookEnd(requireAdmin(reqs[r]), "requireAdmin", "handler")]
    /\ UNCHANGED <<env, now, users, storeUp, pairs, probe, call, served>>

\* the route handler: a placeholder that answers 501
AuditHandler(r) ==
    /\ reqs[r].pc = "handler"
    /\ reqs[r].route = "audit"
    /\ reqs' = [reqs EXCEPT ![r] =
          [Send(reqs[r], Reply(501, "Not Implemented", ""))
              EXCEPT !.ran = Append(@, "handler"), !.pc = "done"]]
    /\ UNCHANGED <<env, now, users, storeUp, pairs, probe, call, served>>

(***************************************************************************)
(* POST /auth/refresh: the controller's refreshToken around                *)
(* AuthService.refreshAccessToken, in its two steps around the await.      *)
(***************************************************************************)
\* a slip in the catch block: the message is never recognised
refreshTokenCatch_AlwaysInternal(err) == Reply(500, "Internal server error", "")

\* a slip in the catch block: the refusal is a 403
refreshTokenCatch_Forbidden(err) ==
    IF err.isError /\ Includes(err.message, <<"Invalid", "refresh", "token">>)
    THEN Reply(403, "Invalid refresh token",
               "The provided refresh token is invalid or expired. Please login again.")
    ELSE Reply(500, "Internal server error", "")

\* the catch block of the controller
refreshTokenCatch(err) ==
    IF err.isError /\ Includes(err.message, <<"Invalid", "refresh", "token">>)
    THEN Reply(401, "Invalid refresh token",
               "The provided refresh token is invalid or expired. Please login again.")
    ELSE Reply(500, "Internal server error", "")

\* a slip after the await: the new pair is made from the claims of the
\* presented token instead of the row just read
refreshAccessTokenResolve_FromToken(decoded, found, t) ==
    LET g == IF found.kind = "found"
             THEN generateTokens([id |-> decoded.userId, email |-> decoded.email,
                                  role |-> decoded.role], t)
             ELSE [ok |-> FALSE, tokens |-> NoTokens]
    IN  IF g.ok THEN [ok |-> TRUE, tokens |-> g.tokens, err |-> NoErr]
        ELSE [ok |-> FALSE, tokens |-> NoTokens, err |-> Err(MsgInvalidRefresh)]

\* refreshAccessToken after the await: the new pair, or the error its own
\* catch block throws in place of any other
refreshAccessTokenResolve(decoded, found, t) ==
    LET g == IF found.kind = "found" THEN generateTokens(Identity(decoded.userId), t)
             ELSE [ok |-> FALSE, tokens |-> NoTokens]
    IN  IF g.ok THEN [ok |-> TRUE, tokens |-> g.tokens, err |-> NoErr]
        ELSE [ok |-> FALSE, tokens |-> NoTokens, err |-> Err(MsgInvalidRefresh)]

PairsSigned == Cardinality(pairs)

RefreshesPending == Cardinality({ q \in Reqs : reqs[q].route = "refresh" /\ reqs[q].pc = "await" })

RefreshStart(r, b) ==
    /\ FreeSlot(r)
    /\ PairsSigned + RefreshesPending < MaxPairs
    /\ LET base == [IdleReq EXCEPT !.route = "refresh", !.refreshToken = b, !.at = now]
           v == verifyToken(b.value, now)
       IN  reqs' = [reqs EXCEPT ![r] =
              IF ~b.present \/ b.value = <<>>
              THEN Send([base EXCEPT !.pc = "done"],
                        Reply(400, "Refresh token is required",
                              "Please provide a valid refresh token."))
              ELSE IF ~v.ok
              THEN Send([base EXCEPT !.pc = "done", !.calls = <<"verifyToken">>],
                        refreshTokenCatch(Err(MsgInvalidRefresh)))
              ELSE [base EXCEPT !.pc = "await", !.decoded = v.payload,
                       !.gone = (v.payload.userId \notin DOMAIN users),
                       !.calls = <<"verifyToken", "findUnique">>]]
    /\ UNCHANGED <<env, now, users, storeUp, pairs, probe, call, served>>

\* refreshAccessToken after the await, and the reply of the handler
RefreshSettle(r) ==
    /\ reqs[r].pc = "await"
    /\ reqs[r].route = "refresh"
    /\ ~AwaitBlocks(r)
    /\ \E found \in FindOutcomes(reqs[r].decoded.userId) :
         LET g == refreshAccessTokenResolve(reqs[r].decoded, found, now)
         IN  /\ reqs' = [reqs EXCEPT ![r] =
                  IF g.ok
                  THEN Send([@ EXCEPT !.pc = "done", !.lookup = found.kind,
                                !.existed = (reqs[r].decoded.userId \in DOMAIN users),
                                !.tokens = g.tokens,
                                !.calls = Append(@, "generateTokens")],
                            Reply(200, "", "Tokens refreshed successfully"))
                  ELSE Send([@ EXCEPT !.pc = "done", !.lookup = found.kind,
                                !.existed = (reqs[r].decoded.userId \in DOMAIN users)],
                            refreshTokenCatch(g.err))]
             /\ pairs' = IF g.ok
                         THEN pairs \cup { [user |-> Identity(reqs[r].decoded.userId),
                                            at |-> now, tokens |-> g.tokens] }
                         ELSE pairs
    /\ UNCHANGED <<env, now, users, storeUp, probe, call>>

\* the store's answer arrives
RefreshLookup(r) ==
    /\ RefreshSettle(r)
    /\ UNCHANGED served

\* the store's answer arrives, and the client notes the first refresh it
\* sees answered with 200 for a token
RefreshNoted(r) ==
    /\ RefreshSettle(r)
    /\ served' = IF /\ reqs'[r].reply.status = 200
                    /\ ~\E x \in served : x.route = "refresh"
                                          /\ x.token = reqs[r].refreshToken.value
                 THEN served \cup { [route |-> "refresh", token |-> reqs[r].refreshToken.value,
                                     at |-> reqs[r].at] }
                 ELSE served

\* the response has gone out (or the route handler has run): the request
\* object is dropped
Recycle(r) ==
    /\ reqs[r].pc = "done"
    /\ reqs' = [reqs EXCEPT ![r] = IdleReq]
    /\ UNCHANGED <<env, now, users, storeUp, pairs, probe, call, served>>

(***************************************************************************)
(* POST /auth/login: the controller's loginUser, in its steps around the   *)
(* three awaits (findUnique, bcrypt.compare, update).                      *)
(***************************************************************************)
\* a slip before the lookup: the address is looked up as it was typed
ToLowerCase_AsTyped(str) == str

\* String.prototype.toLowerCase on the addresses of the model
ToLowerCase(str) ==
    CASE str = "Admin@Ops.IO" -> "admin@ops.io"
      [] str = "VIEWER@ops.io" -> "viewer@ops.io"
      [] str = "New@Ops.io" -> "new@ops.io"
      [] OTHER -> str

\* the bcrypt hash stored for a password (the salt left aside)
BcryptHash(password) ==
    CASE password = "pw-1" -> "hash-1"
      [] password = "pw-2" -> "hash-2"
      [] OTHER -> "hash:" \o password

\* bcrypt.compare(password, hash)
BcryptCompare(password, hash) == BcryptHash(password) = hash

\* the email and password fields of the bodies clients post
LoginEmails == {"", "admin@ops.io", "Admin@Ops.IO", "viewer@ops.io", "nobody@ops.io"}

LoginPasswords == {"", "pw-1", "pw-2", "guess"}

\* prisma.user.findUnique({where: {email}}) as it settles
FindByEmailOutcomes(email) ==
    IF ~storeUp THEN { [kind |-> "error", err |-> e, id |-> 0] : e \in StoreErrors }
    ELSE IF \E id \in DOMAIN users : users[id].email = email
    THEN { [kind |-> "found", err |-> NoErr, id |-> id] :
              id \in { i \in DOMAIN users : users[i].email = email } }
    ELSE { [kind |-> "absent", err |-> NoErr, id |-> 0] }

\* prisma.user.update({where: {id}}) as it settles: done, or a rejection
\* (store unreachable, or no row with that id)
UpdateOutcomes(id) ==
    IF storeUp /\ id \in DOMAIN users THEN {"updated"} ELSE {"error"}

\* the catch block of loginUser
loginUserCatch(q) == Send([q EXCEPT !.pc = "done"], Reply(500, "Internal server error", ""))

\* a slip after the lookup: an unknown address gets an answer of its own
loginUserResolve_UserNotFound(q, found) ==
    LET seen == [q EXCEPT !.lookup = found.kind,
                          !.existed = (\E i \in DOMAIN users :
                                          users[i].email = ToLowerCase(q.body.email))]
    IN  IF found.kind = "error" THEN loginUserCatch(seen)
        ELSE IF found.kind = "absent"
        THEN Send([seen EXCEPT !.pc = "done"], Reply(404, "User not found", ""))
        ELSE [seen EXCEPT !.pc = "compare",
                          !.row = [id |-> found.id, email |-> users[found.id].email,
                                   password |-> users[found.id].password,
                                   role |-> users[found.id].role],
                          !.calls = Append(@, "bcrypt.compare")]

\* loginUser after the first await: no user is a 401, else bcrypt.compare is awaited
loginUserResolve(q, found) ==
    LET seen == [q EXCEPT !.lookup = found.kind,
                          !.existed = (\E i \in DOMAIN users :
                                          users[i].email = ToLowerCase(q.body.email))]
    IN  IF found.kind = "error" THEN loginUserCatch(seen)
        ELSE IF found.kind = "absent"
        THEN Send([seen EXCEPT !.pc = "done"], Reply(401, "Invalid credentials", ""))
        ELSE [seen EXCEPT !.pc = "compare",
                          !.row = [id |-> found.id, email |-> users[found.id].email,
                                   password |-> users[found.id].password,
                                   role |-> users[found.id].role],
                          !.calls = Append(@, "bcrypt.compare")]

\* loginUser after the second await: a wrong password is a 401, else the
\* tokens are generated and the update is awaited
loginUserCompare(q) ==
    LET g == generateTokens([id |-> q.row.id, email |-> q.row.email, role |-> q.row.role], now)
    IN  IF ~BcryptCompare(q.body.password, q.row.password)
        THEN Send([q EXCEPT !.pc = "done"], Reply(401, "Invalid credentials", ""))
        ELSE IF ~g.ok THEN loginUserCatch([q EXCEPT !.calls = Append(@, "generateTokens")])
        ELSE [q EXCEPT !.pc = "update", !.generated = g.tokens,
                       !.calls = @ \o <<"generateTokens", "update">>]

\* a slip in the reply: the row is sent as it was read, password hash included
loginUserFinish_WholeRow(q, outcome) ==
    LET seen == [q EXCEPT !.second = outcome, !.secondExisted = (q.row.id \in DOMAIN users)]
    IN  IF outcome = "error" THEN loginUserCatch(seen)
        ELSE Send([seen EXCEPT !.pc = "done", !.tokens = q.generated, !.replyUser = q.row],
                  Reply(200, "", "Login successful"))

\* loginUser after the third await: the reply with the tokens
loginUserFinish(q, outcome) ==
    LET seen == [q EXCEPT !.second = outcome, !.secondExisted = (q.row.id \in DOMAIN users)]
    IN  IF outcome = "error" THEN loginUserCatch(seen)
        ELSE Send([seen EXCEPT !.pc = "done", !.tokens = q.generated,
                               !.replyUser = [q.row EXCEPT !.password = ""]],
                  Reply(200, "", "Login successful"))

LoginsPending ==
    Cardinality({ q \in Reqs : reqs[q].route = "login" /\ reqs[q].pc \in {"await", "compare"} })

LoginStart(r, email, password) ==
    /\ FreeSlot(r)
    /\ now <= MaxLoginAt
    /\ PairsSigned + LoginsPending < MaxPairs
    /\ LET base == [IdleReq EXCEPT !.route = "login", !.at = now,
                                    !.body = [email |-> email, password |-> password]]
       IN  reqs' = [reqs EXCEPT ![r] =
              IF email = "" \/ password = ""
              THEN Send([base EXCEPT !.pc = "done"],
                        Reply(400, "Email and password are required", ""))
              ELSE [base EXCEPT !.pc = "await", !.calls = <<"findUnique">>]]
    /\ UNCHANGED <<env, now, users, storeUp, pairs, probe, call, served>>

LoginLookup(r) ==
    /\ reqs[r].pc = "await"
    /\ reqs[r].route = "login"
    /\ \E found \in FindByEmailOutcomes(ToLowerCase(reqs[r].body.email)) :
         reqs' = [reqs EXCEPT ![r] = loginUserResolve(reqs[r], found)]
    /\ UNCHANGED <<env, now, users, storeUp, pairs, probe, call, served>>

LoginCompare(r) ==
    /\ reqs[r].pc = "compare"
    /\ reqs[r].route = "login"
    /\ LET q == loginUserCompare(reqs[r])
       IN  /\ reqs' = [reqs EXCEPT ![r] = q]
           /\ pairs' = IF q.pc = "update"
                       THEN pairs \cup { [user |-> [id |-> q.row.id, email |-> q.row.email,
                                                    role |-> q.row.role],
                                          at |-> now, tokens |-> q.generated] }
                       ELSE pairs
    /\ UNCHANGED <<env, now, users, storeUp, probe, call, served>>

LoginUpdate(r) ==
    /\ reqs[r].pc = "update"
    /\ reqs[r].route = "login"
    /\ \E outcome \in UpdateOutcomes(reqs[r].row.id) :
         reqs' = [reqs EXCEPT ![r] = loginUserFinish(reqs[r], outcome)]
    /\ UNCHANGED <<env, now, users, storeUp, pairs, probe, call, served>>

(***************************************************************************)
(* POST /auth/register: the controller's registerUser, in its steps around *)
(* the three awaits (findUnique, bcrypt.hash, create).                     *)
(***************************************************************************)
\* request.body of the registrations: addresses well formed and not, new,
\* new in another letter case, and taken; passwords of 0, 5, 6 and 7
\* characters, with and without letters of both cases and digits
RegisterEmails == {"", "plain", "new@ops.io", "New@Ops.io", "admin@ops.io"}

RegisterPasswords == {"", "abcde", "abcdef", "......", "Abcdef1"}

\* /^[^\s@]+@[^\s@]+\.[^\s@]+$/ on the addresses of the model
isValidEmail(email) ==
    CASE email = "" -> FALSE
      [] email = "plain" -> FALSE
      [] OTHER -> TRUE

\* /[A-Z]/, /[a-z]/ and /\d/ on the passwords of the model
HasUpperCase(password) == password \in {"Abcdef1"}

HasLowerCase(password) == password \in {"abcde", "abcdef", "Abcdef1"}

HasDigit(password) == password \in {"Abcdef1"}

\* validatePassword: the list of complaints, in the order of the checks
validatePassword(password) ==
    LET errors ==
          (IF Len(password) < 6 THEN <<"Password must be at least 6 characters long">> ELSE <<>>)
          \o (IF ~HasUpperCase(password)
              THEN <<"Password must contain at least one uppercase letter">> ELSE <<>>)
          \o (IF ~HasLowerCase(password)
              THEN <<"Password must contain at least one lowercase letter">> ELSE <<>>)
          \o (IF ~HasDigit(password)
              THEN <<"Password must contain at least one number">> ELSE <<>>)
    IN  [isValid |-> errors = <<>>, errors |-> errors]

\* a slip in the validation: the whole password policy is applied
PasswordTooWeak_FullPolicy(password) == ~validatePassword(password).isValid

\* the password check of registerUser
PasswordTooWeak(password) == Len(password) < 6

\* the id the store gives the next row
NewId == 1 + CHOOSE i \in DOMAIN users \cup UserIds :
                \A j \in DOMAIN users \cup UserIds : j <= i

\* prisma.user.create({data: {email, ...}}) as it settles: the row is
\* written, or a rejection: the store is unreachable ("error"), or the
\* address is already in a row ("conflict": email is the unique key
\* findUnique looks rows up by)
CreateOutcomes(email) ==
    IF ~storeUp THEN {"error"}
    ELSE IF \E id \in DOMAIN users : users[id].email = email THEN {"conflict"}
    ELSE {"created"}

\* the catch block of registerUser
registerUserCatch(q) == Send([q EXCEPT !.pc = "done"], Reply(500, "Internal server error", ""))

\* registerUser up to its first await: the three validations, then the lookup
registerUserEnter(q) ==
    LET email == q.body.email
        password == q.body.password
    IN  IF email = "" \/ password = ""
        THEN Send([q EXCEPT !.pc = "done"], Reply(400, "Email and password are required", ""))
        ELSE IF PasswordTooWeak(password)
        THEN Send([q EXCEPT !.pc = "done"],
                  Reply(400, "Password must be at least 6 characters long", ""))
        ELSE IF ~isValidEmail(email)
        THEN Send([q EXCEPT !.pc = "done"],
                  Reply(400, "Please provide a valid email address", ""))
        ELSE [q EXCEPT !.pc = "await", !.calls = <<"findUnique">>]

\* registerUser after the first await: an existing user is a 400, else
\* bcrypt.hash is awaited
registerUserResolve(q, found) ==
    LET seen == [q EXCEPT !.lookup = found.kind,
                          !.existed = (\E i \in DOMAIN users :
                                          users[i].email = ToLowerCase(q.body.email))]
    IN  IF found.kind = "error" THEN registerUserCatch(seen)
        ELSE IF found.kind = "found"
        THEN Send([seen EXCEPT !.pc = "done"], Reply(400, "User already exists", ""))
        ELSE [seen EXCEPT !.pc = "hash", !.calls = Append(@, "bcrypt.hash")]

\* a slip in the row to create: the new user is an administrator
registerUserHashed_Admin(q) ==
    [q EXCEPT !.pc = "create",
              !.row = [id |-> 0, email |-> ToLowerCase(q.body.email),
                       password |-> BcryptHash(q.body.password), role |-> "admin"],
              !.calls = Append(@, "create")]

\* registerUser after the second await: the row to create
registerUserHashed(q) ==
    [q EXCEPT !.pc = "create",
              !.row = [id |-> 0, email |-> ToLowerCase(q.body.email),
                       password |-> BcryptHash(q.body.password), role |-> "viewer"],
              !.calls = Append(@, "create")]

\* registerUser after the third await: 201 with the new user, without its password
registerUserFinish(q, outcome, id) ==
    LET seen == [q EXCEPT !.second = outcome,
                          !.secondExisted = (\E i \in DOMAIN users : users[i].email = q.row.email)]
    IN  IF outcome # "created" THEN registerUserCatch(seen)
        ELSE Send([seen EXCEPT !.pc = "done", !.row = [q.row EXCEPT !.id = id],
                               !.replyUser = [id |-> id, email |-> q.row.email,
                                              password |-> "", role |-> q.row.role]],
                  Reply(201, "", "User created successfully"))

\* the rows created by registrations
Registered == DOMAIN users \ UserIds

RegistrationsPending ==
    Cardinality({ q \in Reqs : reqs[q].route = "register" /\ reqs[q].pc \in {"await", "hash", "create"} })

RegisterStart(r, email, password) ==
    /\ FreeSlot(r)
    /\ Cardinality(Registered) + RegistrationsPending < MaxRegistered
    /\ reqs' = [reqs EXCEPT ![r] =
          registerUserEnter([IdleReq EXCEPT !.route = "register", !.at = now,
                                            !.body = [email |-> email, password |-> password]])]
    /\ UNCHANGED <<env, now, users, storeUp, pairs, probe, call, served>>

RegisterLookup(r) ==
    /\ reqs[r].pc = "await"
    /\ reqs[r].route = "register"
    /\ \E found \in FindByEmailOutcomes(ToLowerCase(reqs[r].body.email)) :
         reqs' = [reqs EXCEPT ![r] = registerUserResolve(reqs[r], found)]
    /\ UNCHANGED <<env, now, users, storeUp, pairs, probe, call, served>>

RegisterHash(r) ==
    /\ reqs[r].pc = "hash"
    /\ reqs[r].route = "register"
    /\ reqs' = [reqs EXCEPT ![r] = registerUserHashed(reqs[r])]
    /\ UNCHANGED <<env, now, users, storeUp, pairs, probe, call, served>>

RegisterCreate(r) ==
    /\ reqs[r].pc = "create"
    /\ reqs[r].route = "register"
    /\ \E outcome \in CreateOutcomes(reqs[r].row.email) :
         /\ reqs' = [reqs EXCEPT ![r] = registerUserFinish(reqs[r], outcome, NewId)]
         /\ users' = IF outcome = "created"
                     THEN [i \in DOMAIN users \cup {NewId} |->
                             IF i = NewId
                             THEN [email |-> reqs[r].row.email, password |-> reqs[r].row.password,
                                   role |-> reqs[r].row.role]
                             ELSE users[i]]
                     ELSE users
    /\ UNCHANGED <<env, now, storeUp, pairs, probe, call, served>>

(***************************************************************************)
(* GET /auth/me: authGuard, then the controller's getCurrentUser in its    *)
(* two steps around the await of findUnique.                               *)
(***************************************************************************)
MeStart(r, h) ==
    /\ FreeSlot(r)
    /\ reqs' = [reqs EXCEPT ![r] =
          authGuardEnter([IdleReq EXCEPT !.route = "me", !.authorization = h, !.at = now],
                         "handler")]
    /\ UNCHANGED <<env, now, users, storeUp, pairs, probe, call, served>>

MeGuardLookup(r) ==
    /\ reqs[r].pc = "await"
    /\ reqs[r].route = "me"
    /\ \E found \in FindOutcomes(reqs[r].decoded.userId) :
         reqs' = [reqs EXCEPT ![r] = authGuardSettle(reqs[r], found, "handler")]
    /\ UNCHANGED <<env, now, users, storeUp, pairs, probe, call, served>>

\* getCurrentUser up to its await: the two checks of request.user, then the
\* lookup by the attached id
getCurrentUserEnter(q) ==
    LET entered == [q EXCEPT !.ran = Append(@, "handler")]
    IN  IF ~q.userSet \/ ~q.user.attached
        THEN [Send(entered, Reply(401, "Authentication required",
                                  "You must be logged in to access this resource."))
                 EXCEPT !.pc = "done"]
        ELSE [entered EXCEPT !.pc = "handlerAwait", !.calls = Append(@, "findUnique")]

\* getCurrentUser after the await: the row selected without its password,
\* 404 for null, 500 from the catch block
getCurrentUserResolve(q, found) ==
    LET seen == [q EXCEPT !.pc = "done", !.second = found.kind,
                          !.secondExisted = (q.user.id \in DOMAIN users)]
    IN  IF found.kind = "error" THEN Send(seen, Reply(500, "Internal server error", ""))
        ELSE IF found.kind = "absent"
        THEN Send(seen, Reply(404, "User not found", "The authenticated user no longer exists."))
        ELSE Send([seen EXCEPT !.replyUser = [id |-> q.user.id, email |-> users[q.user.id].email,
                                              password |-> "", role |-> users[q.user.id].role]],
                  Reply(200, "", "User profile retrieved successfully"))

MeHandler(r) ==
    /\ reqs[r].pc = "handler"
    /\ reqs[r].route = "me"
    /\ reqs' = [reqs EXCEPT ![r] = getCurrentUserEnter(reqs[r])]
    /\ UNCHANGED <<env, now, users, storeUp, pairs, probe, call, served>>

MeLookup(r) ==
    /\ reqs[r].pc = "handlerAwait"
    /\ reqs[r].route = "me"
    /\ \E found \in FindOutcomes(reqs[r].user.id) :
         reqs' = [reqs EXCEPT ![r] = getCurrentUserResolve(reqs[r], found)]
    /\ UNCHANGED <<env, now, users, storeUp, pairs, probe, call, served>>

(***************************************************************************)
(* POST /auth/logout: authGuard, then the controller's logoutUser around   *)
(* AuthService.blacklistToken, which only writes a line to the console.    *)
(***************************************************************************)
LogoutStart(r, h) ==
    /\ FreeSlot(r)
    /\ reqs' = [reqs EXCEPT ![r] =
          authGuardEnter([IdleReq EXCEPT !.route = "logout", !.authorization = h, !.at = now],
                         "handler")]
    /\ UNCHANGED <<env, now, users, storeUp, pairs, probe, call, served>>

LogoutGuardLookup(r) ==
    /\ reqs[r].pc = "await"
    /\ reqs[r].route = "logout"
    /\ \E found \in FindOutcomes(reqs[r].decoded.userId) :
         reqs' = [reqs EXCEPT ![r] = authGuardSettle(reqs[r], found, "handler")]
    /\ UNCHANGED <<env, now, users, storeUp, pairs, probe, call, served>>

\* logoutUser: the token is extracted and handed to blacklistToken (whose
\* body is a console.log and a comment about a future Redis store) inside an
\* inner try whose catch only logs; the reply is 200 either way
logoutUser(q) ==
    LET x == extractTokenFromHeader(q.authorization.value)
        did == IF HeaderMissing(q.authorization) THEN <<>>
               ELSE IF x.ok THEN <<"extractTokenFromHeader", "blacklistToken">>
               ELSE <<"extractTokenFromHeader">>
    IN  Send([q EXCEPT !.pc = "done", !.ran = Append(@, "handler"), !.calls = @ \o did],
             Reply(200, "", "Logout successful"))

LogoutHandler(r) ==
    /\ reqs[r].pc = "handler"
    /\ reqs[r].route = "logout"
    /\ reqs' = [reqs EXCEPT ![r] = logoutUser(reqs[r])]
    /\ served' = served \cup
          (IF HeaderMissing(reqs[r].authorization) THEN {}
           ELSE LET x == extractTokenFromHeader(reqs[r].authorization.value)
                IN  IF x.ok THEN {[route |-> "logout", token |-> x.token, at |-> 0]} ELSE {})
    /\ UNCHANGED <<env, now, users, storeUp, pairs, probe, call>>

(***************************************************************************)
(* Token issue at login, the clock, the store's own life, and direct calls *)
(* of verifyToken.                                                         *)
(***************************************************************************)
\* generateTokens for a user just read from the store, as loginUser calls it
IssueTokens(id) ==
    /\ storeUp
    /\ now <= MaxLoginAt
    /\ id \in DOMAIN users
    /\ PairsSigned + RefreshesPending < MaxPairs
    /\ LET g == generateTokens(Identity(id), now)
       IN  /\ g.ok
           /\ pairs' = pairs \cup { [user |-> Identity(id), at |-> now, tokens |-> g.tokens] }
    /\ UNCHANGED <<env, now, users, storeUp, reqs, probe, call, served>>

Tick(t) ==
    /\ t \in Instants
    /\ t > now
    /\ now' = t
    /\ UNCHANGED <<env, users, storeUp, pairs, reqs, probe, call, served>>

\* a row is deleted from the user table (by an operator: no route does it)
StoreDelete(id) ==
    /\ storeUp
    /\ id \in DOMAIN users
    /\ users' = [i \in DOMAIN users \ {id} |-> users[i]]
    /\ UNCHANGED <<env, now, storeUp, pairs, reqs, probe, call, served>>

\* the rows an operator may rewrite a user's row to: user 1 is demoted and
\* promoted again, user 2 changes the address
Revisions(id) ==
    IF id = 1 THEN { [email |-> "admin@ops.io", role |-> ro] : ro \in {"admin", "viewer"} }
    ELSE { [email |-> e, role |-> "viewer"] : e \in {"viewer@ops.io", "renamed@ops.io"} }

\* email or role of a row is changed (by an operator: no route does it)
StoreUpdate(id, row) ==
    /\ storeUp
    /\ id \in DOMAIN users
    /\ row \in Revisions(id)
    /\ <<row.email, row.role>> # <<users[id].email, users[id].role>>
    /\ users' = [users EXCEPT ![id].email = row.email, ![id].role = row.role]
    /\ UNCHANGED <<env, now, storeUp, pairs, reqs, probe, call, served>>

StoreFail ==
    /\ storeUp
    /\ storeUp' = FALSE
    /\ UNCHANGED <<env, now, users, pairs, reqs, probe, call, served>>

StoreRecover ==
    /\ ~storeUp
    /\ storeUp' = TRUE
    /\ UNCHANGED <<env, now, users, pairs, reqs, probe, call, served>>

NoCall == [fn |-> "none", input |-> <<>>, output |-> <<>>]

NoProbe == [called |-> FALSE, token |-> <<>>, at |-> 0, result |-> verifyToken(<<>>, 0)]

\* the strings verifyToken is called with: every signed token, as it is, with
\* a foreign signature, issuer or audience, and strings that are no JWT
ProbeTokens ==
    { << [a EXCEPT !.sig = s, !.iss = i, !.aud = d] >> :
        a \in IssuedAtoms, s \in {"good", "bad"}, i \in {ISSUER, "another-issuer"},
        d \in {AUD_USERS, AUD_REFRESH, "another-audience"} }
    \cup { <<>>, <<Txt("abc")>>, <<Txt("abc"), Space, Txt("abc")>> }

VerifyProbe(s) ==
    /\ probe' = [called |-> TRUE, token |-> s, at |-> now, result |-> verifyToken(s, now)]
    /\ UNCHANGED <<env, now, users, storeUp, pairs, reqs, call, served>>

(***************************************************************************)
(* Specifications.                                                         *)
(***************************************************************************)
Init ==
    /\ env \in EnvChoices
    /\ now = 0
    /\ users = InitUsers
    /\ storeUp = TRUE
    /\ pairs = {}
    /\ reqs = [r \in 1..NumReqs |-> IdleReq]
    /\ probe = NoProbe
    /\ call = NoCall
    /\ served = {}

Next ==
    \/ \E t \in Instants : Tick(t)
    \/ \E id \in UserIds : IssueTokens(id)
    \/ \E id \in UserIds : StoreDelete(id)
    \/ StoreFail
    \/ StoreRecover
    \/ \E r \in Reqs : \E h \in ClientHeaders : GuardStart(r, h)
    \/ \E r \in Reqs : GuardLookup(r)
    \/ \E r \in Reqs : \E s \in ClientTokens \cup {<<>>} :
          \E b \in {Absent, Present(s)} : RefreshStart(r, b)
    \/ \E r \in Reqs : RefreshLookup(r)
    \/ \E r \in Reqs : Recycle(r)

Spec == Init /\ [][Next]_vars

\* the token service alone: signing, the clock, and verifyToken on any string
NextToken ==
    \/ \E t \in Instants : Tick(t)
    \/ \E id \in UserIds : IssueTokens(id)
    \/ \E s \in ProbeTokens : VerifyProbe(s)

SpecToken == Init /\ [][NextToken]_vars

\* refresh while rows of the store change
NextRefresh ==
    \/ \E t \in Instants : Tick(t)
    \/ \E id \in UserIds : IssueTokens(id)
    \/ \E id \in UserIds : StoreDelete(id)
    \/ \E id \in UserIds : \E row \in Revisions(id) : StoreUpdate(id, row)
    \/ StoreFail
    \/ StoreRecover
    \/ \E r \in Reqs : \E s \in ClientTokens \cup {<<>>} :
          \E b \in {Absent, Present(s)} : RefreshStart(r, b)
    \/ \E r \in Reqs : RefreshLookup(r)
    \/ \E r \in Reqs : Recycle(r)

SpecRefresh == Init /\ [][NextRefresh]_vars

\* logins while the store loses rows and connections
NextLogin ==
    \/ \E id \in UserIds : StoreDelete(id)
    \/ StoreFail
    \/ StoreRecover
    \/ \E r \in Reqs : \E email \in LoginEmails : \E password \in LoginPasswords :
          LoginStart(r, email, password)
    \/ \E r \in Reqs : LoginLookup(r)
    \/ \E r \in Reqs : LoginCompare(r)
    \/ \E r \in Reqs : LoginUpdate(r)
    \/ \E r \in Reqs : Recycle(r)

SpecLogin == Init /\ [][NextLogin]_vars

\* what the client of a session sends: its address as stored or in another
\* letter case, a password, and afterwards the tokens it was given
SessionEmails == {"Admin@Ops.IO", "viewer@ops.io", "nobody@ops.io"}

SessionPasswords == {"pw-1", "pw-2"}

SessionHeaders ==
    { Absent, Present(<<Txt("Bearer"), Space, Txt("abc")>>) }
    \cup { Present(<<Txt("Bearer"), Space>> \o s) : s \in issued }

SessionBodies == { Absent } \cup { Present(s) : s \in issued }

\* what a client that logs out sends, before and after: its access token as
\* the bearer token, its refresh token in the body of a refresh
AccessHeaders ==
    { Absent } \cup { Present(<<Txt("Bearer"), Space>> \o p.tokens.accessToken) : p \in pairs }

RefreshBodies == { Absent } \cup { Present(p.tokens.refreshToken) : p \in pairs }

\* two requests at a time
InitConcurrent ==
    /\ env \in EnvChoices
    /\ now = 0
    /\ users = InitUsers
    /\ storeUp = TRUE
    /\ pairs = {}
    /\ reqs = [r \in 1..(NumReqs + 1) |-> IdleReq]
    /\ probe = NoProbe
    /\ call = NoCall
    /\ served = {}

\* registrations, two at a time, while the store loses rows and connections
NextRegister ==
    \/ \E id \in UserIds : StoreDelete(id)
    \/ StoreFail
    \/ StoreRecover
    \/ \E r \in Reqs : \E email \in RegisterEmails : \E password \in RegisterPasswords :
          RegisterStart(r, email, password)
    \/ \E r \in Reqs : RegisterLookup(r)
    \/ \E r \in Reqs : RegisterHash(r)
    \/ \E r \in Reqs : RegisterCreate(r)
    \/ \E r \in Reqs : Recycle(r)

SpecRegister == InitConcurrent /\ [][NextRegister]_vars

\* two requests at a time before authGuard and refresh; the store answers
\* the second of them, and the first it may leave waiting forever
NextPending ==
    \/ \E id \in UserIds : IssueTokens(id)
    \/ \E id \in UserIds : StoreDelete(id)
    \/ StoreFail
    \/ StoreRecover
    \/ \E r \in Reqs : \E h \in SessionHeaders : GuardStart(r, h)
    \/ \E r \in Reqs : GuardLookup(r)
    \/ \E r \in Reqs : \E b \in SessionBodies : RefreshStart(r, b)
    \/ \E r \in Reqs : RefreshLookup(r)
    \/ \E r \in Reqs : Recycle(r)

SpecPending ==
    /\ InitConcurrent
    /\ [][NextPending]_vars
    /\ WF_vars(GuardLookup(NumReqs + 1))
    /\ WF_vars(RefreshLookup(NumReqs + 1))

\* a session: login, then the tokens presented to authGuard, while the clock
\* runs and the store loses rows and connections
NextSession ==
    \/ \E t \in Instants : Tick(t)
    \/ \E id \in UserIds : StoreDelete(id)
    \/ StoreFail
    \/ StoreRecover
    \/ \E r \in Reqs : \E email \in SessionEmails : \E password \in SessionPasswords :
          LoginStart(r, email, password)
    \/ \E r \in Reqs : LoginLookup(r)
    \/ \E r \in Reqs : LoginCompare(r)
    \/ \E r \in Reqs : LoginUpdate(r)
    \/ \E r \in Reqs : \E h \in SessionHeaders : GuardStart(r, h)
    \/ \E r \in Reqs : GuardLookup(r)
    \/ \E r \in Reqs : Recycle(r)

SpecSession == Init /\ [][NextSession]_vars

\* GET /auth/me with the tokens of earlier logins
NextMe ==
    \/ \E t \in Instants : Tick(t)
    \/ \E id \in UserIds : IssueTokens(id)
    \/ \E id \in UserIds : StoreDelete(id)
    \/ StoreFail
    \/ StoreRecover
    \/ \E r \in Reqs : \E h \in SessionHeaders : MeStart(r, h)
    \/ \E r \in Reqs : MeGuardLookup(r)
    \/ \E r \in Reqs : MeHandler(r)
    \/ \E r \in Reqs : MeLookup(r)
    \/ \E r \in Reqs : Recycle(r)

SpecMe == Init /\ [][NextMe]_vars

\* POST /auth/logout, and the tokens presented to authGuard and to refresh
\* before and after it
NextLogout ==
    \/ \E t \in Instants : Tick(t)
    \/ \E id \in UserIds : IssueTokens(id)
    \/ \E id \in UserIds : StoreDelete(id)
    \/ StoreFail
    \/ StoreRecover
    \/ \E r \in Reqs : \E h \in AccessHeaders : LogoutStart(r, h)
    \/ \E r \in Reqs : LogoutGuardLookup(r)
    \/ \E r \in Reqs : LogoutHandler(r)
    \/ \E r \in Reqs : \E h \in AccessHeaders : GuardStart(r, h)
    \/ \E r \in Reqs : GuardLookup(r)
    \/ \E r \in Reqs : \E b \in RefreshBodies : RefreshStart(r, b)
    \/ \E r \in Reqs : RefreshNoted(r)
    \/ \E r \in Reqs : Recycle(r)

SpecLogout == Init /\ [][NextLogout]_vars

\* the exported functions called directly, on any input
NextCalls ==
    \/ \E id \in UserIds : IssueTokens(id)
    \/ \E str \in TtlInputs : TtlCall(str)
    \/ \E h \in HeaderInputs : HeaderCall(h)
    \/ \E requiredRoles \in RoleLists : \E q \in RoleCallers : RolesCall(requiredRoles, q)

SpecCalls == Init /\ [][NextCalls]_vars

\* the hooks on their routes: optionalAuthGuard alone, and the chain of GET /audit
NextHooks ==
    \/ \E t \in Instants : Tick(t)
    \/ \E id \in UserIds : IssueTokens(id)
    \/ \E id \in UserIds : StoreDelete(id)
    \/ StoreFail
    \/ StoreRecover
    \/ \E r \in Reqs : \E h \in ClientHeaders : OptionalStart(r, h)
    \/ \E r \in Reqs : OptionalLookup(r)
    \/ \E r \in Reqs : \E h \in ClientHeaders : AuditStart(r, h)
    \/ \E r \in Reqs : AuditLookup(r)
    \/ \E r \in Reqs : AuditRole(r)
    \/ \E r \in Reqs : AuditHandler(r)
    \/ \E r \in Reqs : Recycle(r)

SpecHooks == Init /\ [][NextHooks]_vars

(***************************************************************************)
(* Vocabulary of the properties.                                           *)
(***************************************************************************)
GuardDone(r) == reqs[r].route = "guard" /\ reqs[r].pc = "done"

RefreshDone(r) == reqs[r].route = "refresh" /\ reqs[r].pc = "done"

\* a list of at most three role names as requireRoles words it: joined by ', '
Listed(list) ==
    CASE Len(list) = 0 -> ""
      [] Len(list) = 1 -> list[1]
      [] Len(list) = 2 -> list[1] \o ", " \o list[2]
      [] Len(list) = 3 -> list[1] \o ", " \o list[2] \o ", " \o list[3]

\* the position of name in the history ran, 0 when it is not there
Position(ran, name) ==
    IF \E i \in 1..Len(ran) : ran[i] = name
    THEN CHOOSE i \in 1..Len(ran) : ran[i] = name
    ELSE 0

Ran(q, name) == Position(q.ran, name) > 0

\* ^\d+[smhd]$: one digit or more, then one of the four unit letters, and nothing else
MatchesTtlPattern(str) ==
    /\ Len(str) >= 2
    /\ \A i \in 1..(Len(str) - 1) : str[i] \in {"0", "1", "2", "3", "4", "5", "6", "7", "8", "9"}
    /\ str[Len(str)] \in {"s", "m", "h", "d"}

UnitMultiplier(u) == CASE u = "s" -> 1 [] u = "m" -> 60 [] u = "h" -> 3600 [] u = "d" -> 86400

LoginDone(r) == reqs[r].route = "login" /\ reqs[r].pc = "done"

\* a login with both fields given whose address had no row when the store was asked
UnknownEmail(q) ==
    q.body.email # "" /\ q.body.password # "" /\ q.lookup # "none" /\ ~q.existed

\* the password each user of InitUsers registered with
PasswordOf(id) == IF id = 1 THEN "pw-1" ELSE "pw-2"

\* a login whose address had a row, read by the handler, and whose password is not that row's
WrongPassword(q) ==
    /\ q.body.email # "" /\ q.body.password # ""
    /\ q.lookup = "found"
    /\ q.body.password # PasswordOf(q.row.id)

\* the one answer to a failed login, and no token made or returned
RejectedAlike(q) ==
    /\ q.reply = Reply(401, "Invalid credentials", "")
    /\ q.sends = 1
    /\ q.tokens = NoTokens
    /\ q.generated = NoTokens
    /\ \A i \in 1..Len(q.calls) : q.calls[i] # "generateTokens"

OptionalDone(r) == reqs[r].route = "optional" /\ reqs[r].pc = "done"

\* 'Bearer <token>': the word Bearer, one space, one non-empty token without spaces
BearerShaped(h) ==
    /\ h.present
    /\ Len(h.value) = 3
    /\ h.value[1] = Txt("Bearer")
    /\ h.value[2] = Space
    /\ h.value[3] # Space

\* the token of a Bearer-shaped header, as a string
SentToken(h) == << h.value[3] >>

\* the token of a Bearer-shaped header was signed by generateRefreshToken
SentRefreshToken(h) ==
    BearerShaped(h) /\ \E p \in pairs : SentToken(h) = p.tokens.refreshToken

RepliedExpired(q) ==
    q.reply = Reply(401, "Token expired", "Your session has expired. Please login again.")

RepliedInvalid(q) ==
    q.reply = Reply(401, "Invalid token", "The provided token is invalid. Please login again.")

\* the TTL in seconds expected of a setting of the environment
ExpectedTtl(setting, default) ==
    CASE setting = Unset -> default
      [] setting = <<"2", "s">> -> 2
      [] setting = <<"1", "m">> -> 60

\* a direct call of verifyToken on token, signed at t under a TTL of d seconds:
\* accepted before t + d, rejected as expired from t + d on
ProbedWithin(token, t, d) ==
    (probe.called /\ probe.token = token)
    => ( /\ token[1].exp = t + d
         /\ probe.at < t + d => probe.result.ok
         /\ probe.at >= t + d =>
               (~probe.result.ok /\ probe.result.err.message = MsgExpired) )

\* verifyToken was called on a JWT at or after the expiry it carries
ProbedExpiredJwt ==
    /\ probe.called
    /\ Len(probe.token) = 1
    /\ probe.token[1].kind = "jwt"
    /\ probe.at >= probe.token[1].exp

\* the header is Bearer-shaped and its token passes verifyToken
Verifies(q) ==
    BearerShaped(q.authorization) /\ verifyToken(SentToken(q.authorization), q.at).ok

\* an identity attached or a reply sent, never both, never neither
ExactlyOneOutcome(q) == q.user.attached # q.reply.sent

\* the invocation started, with a token the service signed, after its user was removed
StartedAfterRemoval(q) ==
    /\ BearerShaped(q.authorization)
    /\ SentToken(q.authorization) \in issued
    /\ q.at < q.authorization.value[3].exp
    /\ q.gone

(***************************************************************************)
(* C1.  A token signed by generateRefreshToken, sent unexpired as          *)
(* 'Authorization: Bearer <token>', is never accepted by authGuard: no     *)
(* identity is attached and the reply is a 401.                            *)
(* The code accepts it: verifyToken lists both audiences.                  *)
(***************************************************************************)
C1_RefreshTokenRejectedByGuard ==
    \A r \in Reqs :
        ( /\ GuardDone(r)
          /\ SentRefreshToken(reqs[r].authorization)
          /\ reqs[r].at < reqs[r].authorization.value[3].exp )
        => ( /\ ~reqs[r].user.attached
             /\ reqs[r].reply.sent
             /\ reqs[r].reply.status = 401 )

(***************************************************************************)
(* C2.  POST /auth/refresh with a token signed by generateAccessToken      *)
(* always ends in a 401 and returns no new token pair.                     *)
(* The code returns a new pair: verifyToken lists both audiences.          *)
(***************************************************************************)
C2_AccessTokenRejectedByRefresh ==
    \A r \in Reqs :
        ( /\ RefreshDone(r)
          /\ \E p \in pairs : reqs[r].refreshToken = Present(p.tokens.accessToken) )
        => ( /\ reqs[r].reply.status = 401
             /\ reqs[r].tokens = NoTokens )

(***************************************************************************)
(* C3.  Round trip: verifyToken on the access token generateAccessToken    *)
(* made for an identity, before its expiry, returns a payload with that    *)
(* identity's id, email and role.                                          *)
(***************************************************************************)
C3_AccessTokenRoundTrip ==
    \A p \in pairs :
        ( /\ probe.called
          /\ probe.token = p.tokens.accessToken
          /\ probe.at < p.tokens.accessToken[1].exp )
        => ( /\ probe.result.ok
             /\ probe.result.payload.userId = p.user.id
             /\ probe.result.payload.email = p.user.email
             /\ probe.result.payload.role = p.user.role )

\* an access token is verified after the instant it was signed at, and its payload returned
C3_Witness ==
    \E p \in pairs :
        /\ probe.called
        /\ probe.token = p.tokens.accessToken
        /\ probe.at > p.at
        /\ probe.result.ok
        /\ probe.result.payload.userId = p.user.id

(***************************************************************************)
(* C4.  A token signed at time t under TTL d expires at t + d: verifyToken *)
(* accepts it at every time in [t, t + d) and rejects it as expired at     *)
(* every time >= t + d, the instant t + d included.  With nothing          *)
(* configured d is 24 h (86400 s) for access tokens and 7 d (604800 s) for *)
(* refresh tokens.                                                         *)
(***************************************************************************)
C4_ExpiryIsIssuePlusTtl ==
    \A p \in pairs :
        /\ ProbedWithin(p.tokens.accessToken, p.at, ExpectedTtl(env.JWT_EXPIRES_IN, 86400))
        /\ ProbedWithin(p.tokens.refreshToken, p.at,
                        ExpectedTtl(env.JWT_REFRESH_EXPIRES_IN, 604800))

\* the boundary instant of a default access token is probed, and rejected
C4_Witness ==
    \E p \in pairs :
        /\ env.JWT_EXPIRES_IN = Unset
        /\ probe.called
        /\ probe.token = p.tokens.accessToken
        /\ probe.at = p.at + 86400
        /\ ~probe.result.ok
        /\ probe.result.err.message = MsgExpired

(***************************************************************************)
(* C5.  As claimed: verifyToken on any token whose expiry has passed fails *)
(* with 'Token has expired' and never with 'Invalid token', whatever its   *)
(* audience, issuer and signature.  This fails for a token whose signature *)
(* is invalid: the signature is checked before the expiry.                 *)
(***************************************************************************)
C5_Original_ExpiredWhateverElse ==
    ProbedExpiredJwt
    => (~probe.result.ok /\ probe.result.err.message = MsgExpired)

(***************************************************************************)
(* C5, amended.  verifyToken on any correctly signed token whose expiry    *)
(* has passed fails with 'Token has expired' and never with 'Invalid       *)
(* token', whatever its audience and issuer.                               *)
(***************************************************************************)
C5_ExpiredBeforeAudienceAndIssuer ==
    (ProbedExpiredJwt /\ probe.token[1].sig = "good")
    => ( /\ ~probe.result.ok
         /\ probe.result.err.message = MsgExpired
         /\ probe.result.err.message # MsgInvalid )

\* an expired, correctly signed token of a foreign issuer and audience is reported expired
C5_Witness ==
    /\ ProbedExpiredJwt
    /\ probe.token[1].sig = "good"
    /\ probe.token[1].iss # ISSUER
    /\ probe.token[1].aud \notin {AUD_USERS, AUD_REFRESH}
    /\ probe.result.err.message = MsgExpired

(***************************************************************************)
(* C6.  As claimed: every authGuard invocation ends with an identity       *)
(* attached and no reply, or with a reply and no identity; the first       *)
(* exactly when the header is Bearer-shaped, the token verifies and the    *)
(* token's userId exists in the Credential Store.  This fails while the    *)
(* store does not answer: the user exists, and the request is rejected.    *)
(***************************************************************************)
C6_Original_AttachedIffUserExists ==
    \A r \in Reqs :
        GuardDone(r)
        => ( /\ ExactlyOneOutcome(reqs[r])
             /\ reqs[r].user.attached <=> (Verifies(reqs[r]) /\ reqs[r].existed) )

(***************************************************************************)
(* C6, amended.  Every authGuard invocation ends with an identity attached *)
(* and no reply, or with a reply and no identity; the first exactly when   *)
(* the header is Bearer-shaped, the token verifies, and the Credential     *)
(* Store answers the lookup with the row of the token's userId.            *)
(***************************************************************************)
C6_AttachedIffLookupFinds ==
    \A r \in Reqs :
        GuardDone(r)
        => ( /\ ExactlyOneOutcome(reqs[r])
             /\ reqs[r].user.attached
                  <=> ( /\ Verifies(reqs[r])
                        /\ reqs[r].existed
                        /\ reqs[r].lookup # "error" ) )

\* an invocation ends with the identity of the token's user attached and no reply
C6_Witness ==
    \E r \in Reqs :
        /\ GuardDone(r)
        /\ reqs[r].user.attached
        /\ ~reqs[r].reply.sent
        /\ reqs[r].user.id = reqs[r].authorization.value[3].userId

(***************************************************************************)
(* C7.  A header that is not of the form 'Bearer <token>' gets a 401 whose *)
(* error differs from the one a token with an invalid signature gets.      *)
(* The code answers both with 'Invalid token': the message thrown for the  *)
(* header begins with the word Invalid.                                    *)
(***************************************************************************)
C7_MalformedHeaderHasOwnError ==
    \A r \in Reqs :
        ( /\ GuardDone(r)
          /\ reqs[r].authorization.present
          /\ reqs[r].authorization.value # <<>>
          /\ ~BearerShaped(reqs[r].authorization) )
        => ( /\ reqs[r].reply.status = 401
             /\ reqs[r].reply.error # "Invalid token" )

(***************************************************************************)
(* C8.  authGuard tells an expired token from a malformed one: a correctly *)
(* signed token past its expiry gets 401 'Token expired', a token with an  *)
(* invalid signature or structure gets 401 'Invalid token', each with its  *)
(* own message, and never the other way round.                             *)
(***************************************************************************)
C8_ExpiredAndInvalidDistinct ==
    \A r \in Reqs :
        (GuardDone(r) /\ BearerShaped(reqs[r].authorization))
        => LET q == reqs[r]
               a == q.authorization.value[3]
           IN  /\ (a.kind = "jwt" /\ a.sig = "good" /\ q.at >= a.exp)
                    => (RepliedExpired(q) /\ ~RepliedInvalid(q))
               /\ (a.kind # "jwt" \/ a.sig # "good")
                    => (RepliedInvalid(q) /\ ~RepliedExpired(q))

\* a correctly signed token is sent at or after its expiry and answered 'Token expired'
C8_Witness ==
    \E r \in Reqs :
        /\ GuardDone(r)
        /\ BearerShaped(reqs[r].authorization)
        /\ reqs[r].authorization.value[3].sig = "good"
        /\ reqs[r].at >= reqs[r].authorization.value[3].exp
        /\ RepliedExpired(reqs[r])

(***************************************************************************)
(* C9.  When the Credential Store lookup itself fails inside authGuard,    *)
(* the reply is 500 'Internal server error', not a 401.                    *)
(* The code replies 401: what prisma throws is an Error, and every Error   *)
(* is answered with a 401.                                                 *)
(***************************************************************************)
C9_StoreFailureIsInternalError ==
    \A r \in Reqs :
        (GuardDone(r) /\ reqs[r].lookup = "error")
        => ( /\ reqs[r].reply.status = 500
             /\ reqs[r].reply.error = "Internal server error" )

(***************************************************************************)
(* C10.  As claimed: once a user has been removed from the store, every    *)
(* authGuard invocation that starts afterwards with an unexpired,          *)
(* correctly signed token of that user gets 401 'User not found' and no    *)
(* identity.  This fails while the store does not answer: the reply is     *)
(* then the one for the lookup's own error.                                *)
(***************************************************************************)
C10_Original_RemovedUserNotFound ==
    \A r \in Reqs :
        (GuardDone(r) /\ StartedAfterRemoval(reqs[r]))
        => ( /\ ~reqs[r].user.attached
             /\ reqs[r].reply.status = 401
             /\ reqs[r].reply.error = "User not found" )

(***************************************************************************)
(* C10, amended.  Once a user has been removed from the store, every       *)
(* authGuard invocation that starts afterwards with an unexpired,          *)
(* correctly signed token of that user is rejected and attaches no         *)
(* identity; the reply is 401 'User not found' whenever the store answers  *)
(* the lookup.                                                             *)
(***************************************************************************)
C10_RemovedUserRejected ==
    \A r \in Reqs :
        (GuardDone(r) /\ StartedAfterRemoval(reqs[r]))
        => ( /\ ~reqs[r].user.attached
             /\ reqs[r].reply.sent
             /\ reqs[r].reply.status >= 400
             /\ reqs[r].lookup # "error"
                  => ( /\ reqs[r].reply.status = 401
                       /\ reqs[r].reply.error = "User not found" ) )

\* a token of a removed user is sent, the store answers, and the reply is 'User not found'
C10_Witness ==
    \E r \in Reqs :
        /\ GuardDone(r)
        /\ StartedAfterRemoval(reqs[r])
        /\ reqs[r].lookup = "absent"
        /\ reqs[r].reply.error = "User not found"

(***************************************************************************)
(* C11.  A request without an Authorization header is answered by          *)
(* authGuard with 401 'Authorization header is required': no identity is   *)
(* attached, and neither the token service nor the Credential Store has    *)
(* been called.                                                            *)
(***************************************************************************)
C11_MissingHeaderRejectedAtOnce ==
    \A r \in Reqs :
        (GuardDone(r) /\ ~reqs[r].authorization.present)
        => ( /\ reqs[r].reply =
                  Reply(401, "Authorization header is required",
                        "Please provide a valid JWT token in the Authorization header")
             /\ ~reqs[r].user.attached
             /\ reqs[r].calls = <<>>
             /\ reqs[r].decoded = NoPayload
             /\ reqs[r].lookup = "none" )

\* a request without the header has been answered by the guard while signed tokens exist
C11_Witness ==
    \E r \in Reqs :
        /\ GuardDone(r)
        /\ ~reqs[r].authorization.present
        /\ reqs[r].reply.status = 401
        /\ pairs # {}

(***************************************************************************)
(* C12.  optionalAuthGuard never sends a reply.  On every failure (header  *)
(* missing or malformed, token invalid or expired, user unknown, store     *)
(* error) it sets request.user to null and the request proceeds; it        *)
(* attaches a user only when the token verifies and the user exists.       *)
(***************************************************************************)
C12_OptionalGuardNeverReplies ==
    \A r \in Reqs :
        reqs[r].route = "optional"
        => ( /\ ~reqs[r].reply.sent
             /\ reqs[r].sends = 0
             /\ OptionalDone(r)
                  => ( /\ reqs[r].userSet
                       /\ HookChainContinues(reqs[r])
                       /\ reqs[r].user.attached
                            <=> (Verifies(reqs[r]) /\ reqs[r].lookup = "found")
                       /\ reqs[r].user.attached => reqs[r].existed
                       /\ ~reqs[r].user.attached => reqs[r].user = NoUser ) )

\* the store fails under a verified token: request.user is null and nothing was sent
C12_Witness ==
    \E r \in Reqs :
        /\ OptionalDone(r)
        /\ Verifies(reqs[r])
        /\ reqs[r].lookup = "error"
        /\ reqs[r].userSet
        /\ reqs[r].user = NoUser
        /\ ~reqs[r].reply.sent

(***************************************************************************)
(* C13.  For every list of allowed roles and every request, the hook       *)
(* returned by requireRoles replies 401 'Authentication required' when no  *)
(* identity is attached, replies 403 'Insufficient permissions', with a    *)
(* message naming the allowed roles and the caller's role, when the        *)
(* identity's role is not exactly (case included) one of the allowed       *)
(* roles, and otherwise replies nothing and leaves the request as it was.  *)
(* There is no hierarchy: an admin does not pass requireRoles(['editor']). *)
(***************************************************************************)
C13_RoleGuardContract ==
    call.fn = "requireRoles"
    => LET allowed == call.input.requiredRoles
           q == call.input.request
           out == call.output
           member == \E i \in 1..Len(allowed) : allowed[i] = q.user.role
       IN  /\ ~q.user.attached
                => out = [q EXCEPT !.sends = 1,
                             !.reply = Reply(401, "Authentication required",
                                   "You must be logged in to access this resource.")]
           /\ (q.user.attached /\ ~member)
                => out = [q EXCEPT !.sends = 1,
                             !.reply = Reply(403, "Insufficient permissions",
                                   "This resource requires one of the following roles: "
                                      \o Listed(allowed) \o ". Your role: " \o q.user.role)]
           /\ (q.user.attached /\ member) => out = q
           /\ (q.user.attached /\ q.user.role = "admin" /\ allowed = <<"editor">>)
                => out.reply.status = 403

\* an admin calls the hook of requireRoles(['editor']) and is answered 403, both roles named
C13_Witness ==
    /\ call.fn = "requireRoles"
    /\ call.input.requiredRoles = <<"editor">>
    /\ call.input.request.user.attached
    /\ call.input.request.user.role = "admin"
    /\ call.output.reply.status = 403
    /\ call.output.reply.message =
          "This resource requires one of the following roles: editor. Your role: admin"

(***************************************************************************)
(* C14.  In the chain [authGuard, requireAdmin] of GET /audit the role     *)
(* hook runs only after authGuard has returned, and the handler runs only  *)
(* for a request whose attached identity has role exactly 'admin'.  A      *)
(* request that authGuard does not authenticate is stopped by authGuard    *)
(* with a 401, an authenticated one that is no admin is stopped with a     *)
(* 403, and reply.send is called at most once per request.                 *)
(***************************************************************************)
C14_AuditChainOrder ==
    \A r \in Reqs :
        reqs[r].route = "audit"
        => LET q == reqs[r]
           IN  /\ q.sends <= 1
               /\ Ran(q, "requireAdmin")
                    => ( /\ Position(q.ran, "authGuard") = 1
                         /\ Position(q.ran, "requireAdmin") = 2
                         /\ q.user.attached )
               /\ Ran(q, "handler")
                    => ( /\ q.ran = <<"authGuard", "requireAdmin", "handler">>
                         /\ q.user.attached
                         /\ q.user.role = "admin" )
               /\ (Ran(q, "authGuard") /\ ~q.user.attached)
                    => ( /\ q.pc = "done"
                         /\ q.ran = <<"authGuard">>
                         /\ q.reply.status = 401 )
               /\ (q.pc = "done" /\ q.user.attached /\ q.user.role # "admin")
                    => ( /\ q.ran = <<"authGuard", "requireAdmin">>
                         /\ q.reply.status = 403 )

\* a viewer with a verified token is stopped by the role hook with a 403
C14_Witness ==
    \E r \in Reqs :
        /\ reqs[r].route = "audit"
        /\ reqs[r].pc = "done"
        /\ reqs[r].user.attached
        /\ reqs[r].user.role = "viewer"
        /\ reqs[r].ran = <<"authGuard", "requireAdmin">>
        /\ reqs[r].reply.status = 403
        /\ reqs[r].sends = 1

(***************************************************************************)
(* C15.  POST /auth/refresh with a correctly signed, unexpired refresh     *)
(* token whose userId is no longer in the Credential Store ends in a 401   *)
(* and issues no new access or refresh token.                              *)
(***************************************************************************)
C15_RefreshOfRemovedUserRejected ==
    \A r \in Reqs :
        ( /\ RefreshDone(r)
          /\ \E p \in pairs : reqs[r].refreshToken = Present(p.tokens.refreshToken)
          /\ reqs[r].at < reqs[r].refreshToken.value[1].exp
          /\ reqs[r].lookup # "none"
          /\ ~reqs[r].existed )
        => ( /\ reqs[r].reply.status = 401
             /\ reqs[r].reply.error = "Invalid refresh token"
             /\ reqs[r].tokens = NoTokens
             /\ ~ArrayIncludes(reqs[r].calls, "generateTokens") )

\* the refresh token of a removed user is presented, the store answers, the reply is a 401
C15_Witness ==
    \E r \in Reqs :
        /\ RefreshDone(r)
        /\ \E p \in pairs : reqs[r].refreshToken = Present(p.tokens.refreshToken)
        /\ reqs[r].gone
        /\ reqs[r].lookup = "absent"
        /\ reqs[r].reply.status = 401

(***************************************************************************)
(* C16.  Rotation: whatever the identity and the two instants, the pair    *)
(* refreshAccessToken returns for the refresh token of a pair made by      *)
(* generateTokens has an access token string other than that pair's, and a *)
(* refresh token string other than that pair's.                            *)
(* The code returns the very same strings when the refresh falls into the  *)
(* second of the signing and the user's row is unchanged: jwt.sign is a    *)
(* function of the payload, iat and the secret.                            *)
(***************************************************************************)
C16_RefreshRotatesTokens ==
    \A r \in Reqs :
        (RefreshDone(r) /\ reqs[r].reply.status = 200)
        => \A p \in pairs :
              reqs[r].refreshToken = Present(p.tokens.refreshToken)
              => ( /\ reqs[r].tokens.accessToken # p.tokens.accessToken
                   /\ reqs[r].tokens.refreshToken # p.tokens.refreshToken )

(***************************************************************************)
(* C17.  A successful refresh resolves the identity anew by userId: both   *)
(* tokens of the new pair carry the email and the role the Credential      *)
(* Store holds for that userId when the refresh reads it, not those in the *)
(* presented refresh token.                                                *)
(***************************************************************************)
C17_RefreshReadsStore ==
    [][ \A r \in Reqs :
          ( /\ reqs[r].route = "refresh"
            /\ reqs[r].pc = "await"
            /\ reqs'[r].pc = "done"
            /\ reqs'[r].reply.status = 200 )
          => LET row == users[reqs[r].decoded.userId]
                 new == reqs'[r].tokens
             IN  /\ new.accessToken[1].userId = reqs[r].decoded.userId
                 /\ new.accessToken[1].email = row.email
                 /\ new.accessToken[1].role = row.role
                 /\ new.refreshToken[1].userId = reqs[r].decoded.userId
                 /\ new.refreshToken[1].email = row.email
                 /\ new.refreshToken[1].role = row.role ]_vars

\* a refresh succeeded on a token whose role the store no longer holds: the new pair has the store's
C17_Witness ==
    \E r \in Reqs :
        /\ RefreshDone(r)
        /\ reqs[r].reply.status = 200
        /\ reqs[r].decoded.userId \in DOMAIN users
        /\ reqs[r].decoded.role # users[reqs[r].decoded.userId].role
        /\ reqs[r].tokens.accessToken[1].role = users[reqs[r].decoded.userId].role
        /\ reqs[r].tokens.refreshToken[1].role = users[reqs[r].decoded.userId].role

(***************************************************************************)
(* C18.  getTokenExpirationTime maps every string matching ^\d+[smhd]$ to  *)
(* its integer prefix times the multiplier of the unit (s 1, m 60, h 3600, *)
(* d 86400) and every other string to 86400: '24h' gives 86400, '7d' gives *)
(* 604800, 'bogus' gives 86400.  generateTokens returns that value for the *)
(* configured access TTL as expiresIn, with tokenType 'Bearer'.            *)
(***************************************************************************)
C18_TtlParser ==
    /\ call.fn = "getTokenExpirationTime"
         => LET str == call.input
            IN  /\ MatchesTtlPattern(str)
                     => call.output = ParseInt(SubSeq(str, 1, Len(str) - 1))
                                         * UnitMultiplier(str[Len(str)])
                /\ ~MatchesTtlPattern(str) => call.output = 86400
                /\ str = <<"2", "4", "h">> => call.output = 86400
                /\ str = <<"7", "d">> => call.output = 604800
                /\ str = <<"b", "o", "g", "u", "s">> => call.output = 86400
                /\ str = <<"1", "5", "m">> => call.output = 900
    /\ \A p \in pairs :
          /\ p.tokens.tokenType = "Bearer"
          /\ p.tokens.expiresIn = ExpectedTtl(env.JWT_EXPIRES_IN, 86400)

\* the parser has been called on a string with two unit letters, and a pair was generated
C18_Witness ==
    /\ call.fn = "getTokenExpirationTime"
    /\ call.input = <<"1", "0", "m", "s">>
    /\ call.output = 86400
    /\ \E p \in pairs : p.tokens.expiresIn = 2

(***************************************************************************)
(* C19.  extractTokenFromHeader returns the token exactly when the header  *)
(* is two parts separated by a single space, the first of them 'Bearer' in *)
(* that very case ('Bearer abc' gives 'abc'); for every other value        *)
(* ('abc', 'Basic abc', '', 'bearer abc', 'Bearer  abc', 'Bearer a b') it  *)
(* fails with one of its two header errors.                                *)
(* The code returns the empty string for 'Bearer ', a header that has the  *)
(* word and the space but no second part: split(' ') counts the empty run  *)
(* after the space as a part.                                              *)
(***************************************************************************)
C19_ExtractExactlyBearerHeaders ==
    call.fn = "extractTokenFromHeader"
    => LET h == call.input
           out == call.output
       IN  /\ BearerShaped(Present(h))
                => (out.ok /\ out.token = SentToken(Present(h)))
           /\ ~BearerShaped(Present(h))
                => ( /\ ~out.ok
                     /\ out.err \in {Err(MsgHeaderFormat), Err(MsgHeaderRequired)} )

(***************************************************************************)
(* C20.  As claimed: for every non-empty email and password, a login for   *)
(* an address without a stored user and a login for a stored address with  *)
(* a wrong password get the same status 401 and the same body, and neither*)
(* issues a token.  This fails while the store does not answer the lookup: *)
(* the login for the unknown address is then answered 500.                 *)
(***************************************************************************)
C20_Original_LoginFailuresAlike ==
    \A r \in Reqs :
        (LoginDone(r) /\ (UnknownEmail(reqs[r]) \/ WrongPassword(reqs[r])))
        => RejectedAlike(reqs[r])

(***************************************************************************)
(* C20, amended.  For every non-empty email and password, whenever the     *)
(* Credential Store answers the lookup, a login for an address without a   *)
(* stored user and a login for a stored address with a wrong password get  *)
(* the same status 401 and the same body; whether it answers or not,       *)
(* neither issues a token.                                                 *)
(***************************************************************************)
C20_LoginFailuresAlike ==
    \A r \in Reqs :
        (LoginDone(r) /\ (UnknownEmail(reqs[r]) \/ WrongPassword(reqs[r])))
        => ( /\ reqs[r].lookup # "error" => RejectedAlike(reqs[r])
             /\ reqs[r].tokens = NoTokens
             /\ reqs[r].generated = NoTokens )

\* after one user logged in, a login with a wrong password for a stored address is rejected
C20_Witness ==
    \E r \in Reqs :
        /\ LoginDone(r)
        /\ WrongPassword(reqs[r])
        /\ reqs[r].row.id = 1
        /\ RejectedAlike(reqs[r])
        /\ pairs # {}

\* two addresses that differ at most in the case of their letters
SameUpToCase(a, b) ==
    \/ a = b
    \/ {a, b} = {"Admin@Ops.IO", "admin@ops.io"}
    \/ {a, b} = {"VIEWER@ops.io", "viewer@ops.io"}
    \/ {a, b} = {"New@Ops.io", "new@ops.io"}

\* a login with the password of user id and an address that is the stored
\* one up to letter case, the user being in the store to this day (and so
\* throughout the login: rows are only ever deleted)
CorrectLogin(q, id) ==
    /\ id \in DOMAIN users
    /\ SameUpToCase(q.body.email, users[id].email)
    /\ q.body.password = PasswordOf(id)

\* the 200 of a login: the pair signed for user id, with its four fields
LoggedIn(q, id) ==
    /\ q.reply.status = 200
    /\ q.tokens.accessToken # <<>>
    /\ q.tokens.refreshToken # <<>>
    /\ q.tokens.expiresIn = ExpectedTtl(env.JWT_EXPIRES_IN, 86400)
    /\ q.tokens.tokenType = "Bearer"
    /\ \E p \in pairs : p.tokens = q.tokens /\ p.user.id = id

\* the request carries the access token of pair p, before its expiry, and
\* the user of p is in the store to this day (and so was throughout the
\* request: rows are only ever deleted)
PresentsAccessToken(q, p) ==
    /\ BearerShaped(q.authorization)
    /\ SentToken(q.authorization) = p.tokens.accessToken
    /\ q.at < q.authorization.value[3].exp
    /\ p.user.id \in DOMAIN users

(***************************************************************************)
(* C21, as stated.  A login with the correct password and an address that  *)
(* matches a registered one up to letter case returns 200 with             *)
(* accessToken, refreshToken, expiresIn and tokenType 'Bearer', and the     *)
(* access token, presented to authGuard before its expiry while the user   *)
(* exists, attaches that user's identity.  The code answers 500 to such a  *)
(* login, and 401 to such a token, while the store does not answer.        *)
(***************************************************************************)
C21_Original_LoginThenGuard ==
    \A r \in Reqs :
        /\ LoginDone(r) => \A id \in UserIds :
              CorrectLogin(reqs[r], id) => LoggedIn(reqs[r], id)
        /\ GuardDone(r) => \A p \in pairs :
              PresentsAccessToken(reqs[r], p)
              => ( /\ reqs[r].user.attached
                   /\ reqs[r].user.id = p.user.id
                   /\ reqs[r].user.email = p.user.email
                   /\ reqs[r].user.role = p.user.role )

(***************************************************************************)
(* C21, amended.  Whenever the Credential Store answers the operations of  *)
(* the request, a login with the correct password and an address that      *)
(* matches a registered one up to letter case returns 200 with             *)
(* accessToken, refreshToken, expiresIn and tokenType 'Bearer', and the     *)
(* access token, presented to authGuard before its expiry while the user   *)
(* exists, attaches that user's identity.                                  *)
(***************************************************************************)
C21_LoginThenGuard ==
    \A r \in Reqs :
        /\ LoginDone(r) => \A id \in UserIds :
              (CorrectLogin(reqs[r], id) /\ reqs[r].lookup # "error" /\ reqs[r].second # "error")
              => LoggedIn(reqs[r], id)
        /\ GuardDone(r) => \A p \in pairs :
              (PresentsAccessToken(reqs[r], p) /\ reqs[r].lookup # "error")
              => ( /\ reqs[r].user.attached
                   /\ reqs[r].user.id = p.user.id
                   /\ reqs[r].user.email = p.user.email
                   /\ reqs[r].user.role = p.user.role )

\* the administrator, who can only log in as 'Admin@Ops.IO' here, has done
\* so, and the access token of that login has attached the administrator
C21_Witness ==
    \E r \in Reqs : \E p \in pairs :
        /\ GuardDone(r)
        /\ PresentsAccessToken(reqs[r], p)
        /\ p.user.id = 1
        /\ reqs[r].user.attached
        /\ reqs[r].user.email = "admin@ops.io"

RegisterDone(r) == reqs[r].route = "register" /\ reqs[r].pc = "done"

\* the addresses of the model that have the form local@domain.tld
WellFormed(email) == email \in {"new@ops.io", "New@Ops.io", "admin@ops.io"}

\* no row had the address, in lower case, when the registration looked it up
\* nor when it created its row
Unused(q) ==
    /\ q.lookup # "none" => ~q.existed
    /\ q.second # "none" => ~q.secondExisted

\* the registration was refused with 400 before the store was touched
RefusedUnstored(q) ==
    /\ q.reply.status = 400
    /\ q.calls = <<>>
    /\ q.second = "none"
    /\ q.replyUser = NoRow

\* the registration was answered 201 and its row, a viewer under the
\* address in lower case, is in the store
Created(q) ==
    /\ q.reply.status = 201
    /\ q.replyUser.id \in Registered
    /\ SameUpToCase(users[q.replyUser.id].email, q.body.email)
    /\ users[q.replyUser.id].email = q.replyUser.email
    /\ users[q.replyUser.id].role = "viewer"

\* a password without upper-case letter, lower-case letter or digit
Characterless(password) == password = "......"

(***************************************************************************)
(* C22, as stated.  Registration enforces only the minimum length: with a  *)
(* well-formed, unused email, a password of length 5 or less yields 400    *)
(* and creates no user, and every password of length 6 or more yields 201  *)
(* and creates a user, whatever its characters.  The code answers 500 to   *)
(* such a registration while the store does not answer.                    *)
(***************************************************************************)
C22_Original_MinimumLengthOnly ==
    \A r \in Reqs :
        (RegisterDone(r) /\ WellFormed(reqs[r].body.email))
        => ( /\ Len(reqs[r].body.password) <= 5 => RefusedUnstored(reqs[r])
             /\ (Len(reqs[r].body.password) >= 6 /\ Unused(reqs[r])) => Created(reqs[r]) )

(***************************************************************************)
(* C22, amended.  Registration enforces only the minimum length: with a    *)
(* well-formed email, a password of length 5 or less yields 400 and        *)
(* creates no user; and with a well-formed, unused email, whenever the     *)
(* Credential Store answers the lookup and the create, every password of   *)
(* length 6 or more yields 201 and creates a user, whatever its            *)
(* characters.                                                             *)
(***************************************************************************)
C22_MinimumLengthOnly ==
    \A r \in Reqs :
        (RegisterDone(r) /\ WellFormed(reqs[r].body.email))
        => ( /\ Len(reqs[r].body.password) <= 5 => RefusedUnstored(reqs[r])
             /\ ( /\ Len(reqs[r].body.password) >= 6
                  /\ Unused(reqs[r])
                  /\ reqs[r].lookup # "error"
                  /\ reqs[r].second # "error" )
                => Created(reqs[r]) )

\* a password of six dots has registered a user
C22_Witness ==
    \E r \in Reqs :
        /\ RegisterDone(r)
        /\ Characterless(reqs[r].body.password)
        /\ ~validatePassword(reqs[r].body.password).isValid
        /\ Unused(reqs[r])
        /\ Created(reqs[r])

\* a row had the address, in lower case, when the registration looked it
\* up or when it created its row
Taken(q) ==
    \/ q.lookup # "none" /\ q.existed
    \/ q.second # "none" /\ q.secondExisted

\* no two rows of the store have the same address
NoDuplicateEmails ==
    \A i, j \in DOMAIN users : users[i].email = users[j].email => i = j

(***************************************************************************)
(* C23.  Under any interleaving of concurrent registrations, one whose     *)
(* lower-case address is already taken, be it by a registration that is    *)
(* between its existence check and its create, is answered 400, never 500  *)
(* (here: whenever the store is reachable for its lookup and its create),  *)
(* and the store never holds two users with the same address.  The code    *)
(* answers 500 to the registration that loses the race: its create is      *)
(* rejected by the store and the catch block replies.                      *)
(***************************************************************************)
C23_TakenEmailRefused ==
    /\ NoDuplicateEmails
    /\ \A r \in Reqs :
          ( /\ RegisterDone(r)
            /\ Taken(reqs[r])
            /\ reqs[r].lookup # "error"
            /\ reqs[r].second # "error" )
          => reqs[r].reply.status = 400

\* the request carries, before its expiry, the access token of pair p, which
\* a logout has been answered 200 for, and the user of p is in the store
PresentsLoggedOutToken(q, p) ==
    /\ PresentsAccessToken(q, p)
    /\ p.tokens.accessToken \in loggedOut

\* the request carries, before its expiry, the refresh token of pair p, whose
\* access token a logout has been answered 200 for, and the user of p is in
\* the store
PresentsLoggedOutRefreshToken(q, p) ==
    /\ q.refreshToken = Present(p.tokens.refreshToken)
    /\ p.tokens.accessToken \in loggedOut
    /\ q.at < q.refreshToken.value[1].exp
    /\ p.user.id \in DOMAIN users

\* authGuard let the request through as the user of pair p
AcceptedAs(q, p) ==
    /\ q.user.attached
    /\ ~q.reply.sent
    /\ q.user.id = p.user.id

\* the refresh answered 200 with a pair for the user of pair p
RefreshedAs(q, p) ==
    /\ q.reply.status = 200
    /\ q.tokens.accessToken # <<>>
    /\ q.tokens.accessToken[1].userId = p.user.id
    /\ q.tokens.refreshToken # <<>>
    /\ q.tokens.refreshToken[1].userId = p.user.id

\* the handler of a logout runs
LogoutStep ==
    \E r \in Reqs :
        reqs[r].route = "logout" /\ reqs[r].pc = "handler" /\ reqs'[r].pc = "done"

(***************************************************************************)
(* C24, as stated.  After logoutUser has returned 200 for a request        *)
(* carrying access token T, T is still accepted by authGuard, and the      *)
(* pair's refresh token by refresh, at every later time before its expiry, *)
(* as long as the user exists.  The code rejects both while the store does *)
(* not answer.                                                             *)
(***************************************************************************)
C24_Original_LogoutAdvisory ==
    \A r \in Reqs : \A p \in pairs :
        /\ (GuardDone(r) /\ PresentsLoggedOutToken(reqs[r], p)) => AcceptedAs(reqs[r], p)
        /\ (RefreshDone(r) /\ PresentsLoggedOutRefreshToken(reqs[r], p))
              => RefreshedAs(reqs[r], p)

(***************************************************************************)
(* C24, amended.  Logout is advisory only: after logoutUser has returned   *)
(* 200 for a request carrying access token T, T is still accepted by       *)
(* authGuard, and the pair's refresh token by refresh, at every later time *)
(* before its expiry, as long as the user exists and the Credential Store  *)
(* answers the lookup; and the handler of a logout changes no server-side  *)
(* state (users, signing configuration, signed pairs).                     *)
(***************************************************************************)
C24_LogoutAdvisory ==
    /\ [](\A r \in Reqs : \A p \in pairs :
            /\ (GuardDone(r) /\ PresentsLoggedOutToken(reqs[r], p) /\ reqs[r].lookup # "error")
                  => AcceptedAs(reqs[r], p)
            /\ (RefreshDone(r) /\ PresentsLoggedOutRefreshToken(reqs[r], p)
                               /\ reqs[r].lookup # "error")
                  => RefreshedAs(reqs[r], p))
    /\ [][LogoutStep => UNCHANGED <<env, now, users, storeUp, pairs>>]_vars

\* an access token that was logged out has been let through by authGuard
\* at a later instant
C24_Witness ==
    \E r \in Reqs : \E p \in pairs :
        /\ GuardDone(r)
        /\ PresentsLoggedOutToken(reqs[r], p)
        /\ AcceptedAs(reqs[r], p)
        /\ reqs[r].at > p.at

LogoutDone(r) == reqs[r].route = "logout" /\ reqs[r].pc = "done"

(***************************************************************************)
(* C25.  POST /auth/logout with a valid access token (signed for a user    *)
(* who is in the store, and not expired) performs no Credential Store      *)
(* operation and is answered 200, be the store available or not.  The      *)
(* route runs authGuard first, which looks the user up in the store and    *)
(* answers 401 when the lookup fails.                                      *)
(***************************************************************************)
C25_LogoutWithoutStore ==
    \A r \in Reqs : \A p \in pairs :
        (LogoutDone(r) /\ PresentsAccessToken(reqs[r], p))
        => ( /\ reqs[r].reply.status = 200
             /\ ~ArrayIncludes(reqs[r].calls, "findUnique") )

\* the refresh answered 200 with a new pair
RefreshGranted(q) ==
    /\ q.reply = Reply(200, "", "Tokens refreshed successfully")
    /\ q.tokens # NoTokens
    /\ q.tokens.accessToken # <<>>
    /\ q.tokens.refreshToken # <<>>
    /\ \E p \in pairs : p.tokens = q.tokens

\* the refresh answered 401 'Invalid refresh token' and gave no token
RefreshRefused(q) ==
    /\ q.reply.status = 401
    /\ q.reply.error = "Invalid refresh token"
    /\ q.tokens = NoTokens

\* the refresh answered 400 'Refresh token is required' and gave no token
RefreshTokenRequired(q) ==
    /\ q.reply.status = 400
    /\ q.reply.error = "Refresh token is required"
    /\ q.tokens = NoTokens

\* the body has no refreshToken, or an empty one
LacksRefreshToken(q) == ~q.refreshToken.present \/ q.refreshToken.value = <<>>

\* a 200 only for a token that verifies when the request arrives, and whose
\* user is in the store when it is looked up
GrantedOnlyToVerified(q) ==
    RefreshGranted(q)
    => ( /\ ~LacksRefreshToken(q)
         /\ verifyToken(q.refreshToken.value, q.at).ok
         /\ q.lookup = "found"
         /\ q.existed )

MeDone(r) == reqs[r].route = "me" /\ reqs[r].pc = "done"

\* the request carries, before its expiry, an access token the service signed
CarriesValidAccessToken(q) ==
    /\ BearerShaped(q.authorization)
    /\ \E p \in pairs : SentToken(q.authorization) = p.tokens.accessToken
    /\ q.at < q.authorization.value[3].exp

\* the profile in the reply is the row the store holds for the token's user
ProfileOfStore(q) ==
    LET id == q.authorization.value[3].userId
    IN  /\ q.reply.status = 200
        /\ q.replyUser.id = id
        /\ id \in DOMAIN users
              => (q.replyUser.email = users[id].email /\ q.replyUser.role = users[id].role)

(***************************************************************************)
(* C27.  GET /auth/me, authGuard then getCurrentUser, answers 200 with the *)
(* store's id, email and role of the token's user when the access token is *)
(* valid and the user exists throughout; otherwise 401 from the guard; and *)
(* 404 exactly when the user is removed between the guard's lookup and the *)
(* handler's (here: whenever the store answers both lookups).  The code    *)
(* answers 200 to a refresh token presented as the bearer token.           *)
(***************************************************************************)
C27_ProfileOutcomes ==
    \A r \in Reqs :
        (MeDone(r) /\ reqs[r].lookup # "error" /\ reqs[r].second # "error")
        => LET q == reqs[r]
               atGuard == CarriesValidAccessToken(q) /\ q.existed
               atHandler == q.second # "none" /\ q.secondExisted
           IN  /\ (atGuard /\ atHandler) => ProfileOfStore(q)
               /\ ~atGuard => (q.reply.status = 401 /\ q.ran = <<"authGuard">>)
               /\ q.reply.status = 404 <=> (atGuard /\ ~atHandler)

\* the request that may be left waiting, and the one submitted beside it
Stalled == NumReqs

Sibling == NumReqs + 1

\* request r waits for the store
Awaiting(r) == reqs[r].pc = "await"

\* the identity on a request is that of the user its own bearer token names
OwnIdentity(q) ==
    q.user.attached
    => ( /\ BearerShaped(q.authorization)
         /\ q.user.id = q.authorization.value[3].userId )

Acceptable(s, t) ==
    /\ Len(s) = 1
    /\ s[1].kind = "jwt"
    /\ s[1].sig = "good"
    /\ s[1].iss = "righthand-ops-hub"
    /\ s[1].aud \in {"righthand-ops-hub-users", "righthand-ops-hub-refresh"}
    /\ t < s[1].exp

\* whether authGuard and refresh would let token s through at this moment
AcceptedNow(s) ==
    /\ Acceptable(s, now)
    /\ storeUp
    /\ s[1].userId \in DOMAIN users

\* a step of one of the operations of the service (a token is signed, a
\* request moves on), as opposed to the clock and the store's own life
OperationStep == reqs' # reqs \/ pairs' # pairs \/ served' # served

\* the request presents a token that an earlier refresh was answered 200 for,
\* before the token's expiry
RefreshesAgain(q) ==
    /\ q.refreshToken.present
    /\ \E x \in served : x.route = "refresh" /\ x.token = q.refreshToken.value /\ x.at < q.at
    /\ q.at < q.refreshToken.value[1].exp

(***************************************************************************)
(* C29, as stated.  The refresh token presented to a successful refresh    *)
(* remains acceptable to later refresh calls until its own expiry.  The    *)
(* code refuses it once its user is removed, and while the store does not  *)
(* answer.                                                                 *)
(***************************************************************************)
C29_Original_NoTokenState ==
    \A r \in Reqs :
        (RefreshDone(r) /\ RefreshesAgain(reqs[r])) => RefreshGranted(reqs[r])

(***************************************************************************)
(* C29, amended.  The system keeps no server-side token state: the outcome *)
(* of verifyToken depends only on the token, the secret and the time; no   *)
(* operation (a signing, a step of a logout, of a refresh, of authGuard)   *)
(* changes whether a token signed before is accepted; and the refresh      *)
(* token presented to a successful refresh is accepted by later refresh    *)
(* calls until its own expiry, as long as its user exists and the          *)
(* Credential Store answers the lookup.                                    *)
(***************************************************************************)
C29_NoTokenState ==
    /\ [](\A s \in ClientTokens : \A t \in Instants :
             verifyToken(s, t).ok <=> Acceptable(s, t))
    /\ [][OperationStep => \A s \in issued : AcceptedNow(s)' <=> AcceptedNow(s)]_vars
    /\ [](\A r \in Reqs :
             ( /\ RefreshDone(r)
               /\ RefreshesAgain(reqs[r])
               /\ reqs[r].refreshToken.value[1].userId \in DOMAIN users
               /\ reqs[r].lookup # "error" )
             => RefreshGranted(reqs[r]))

\* a refresh token that a refresh was answered 200 for has, at a later
\* instant and after a logout, been answered 200 again
C29_Witness ==
    \E r \in Reqs :
        /\ RefreshDone(r)
        /\ RefreshesAgain(reqs[r])
        /\ RefreshGranted(reqs[r])
        /\ loggedOut # {}

\* verifyToken on token s, at an instant before its expiry, returns the
\* userId, email and role of identity u
VerifiesAs(s, u) ==
    \A t \in Instants :
        t < s[1].exp
        => LET v == verifyToken(s, t)
           IN  /\ v.ok
               /\ v.payload.userId = u.id
               /\ v.payload.email = u.email
               /\ v.payload.role = u.role

\* the row of the user of pair p is no longer what it was when p was signed
ChangedSince(p) ==
    /\ p.user.id \in DOMAIN users
    /\ users[p.user.id].email # p.user.email \/ users[p.user.id].role # p.user.role

(***************************************************************************)
(* C30.  A token's payload is immutable once issued: whatever happens to   *)
(* the user's row afterwards, verifyToken on a token returns the userId,   *)
(* email and role the user had when it was signed; and a refresh that is   *)
(* answered after a change signs the changed values into its new tokens.   *)
(***************************************************************************)
C30_PayloadImmutable ==
    /\ \A p \in pairs :
          /\ VerifiesAs(p.tokens.accessToken, p.user)
          /\ VerifiesAs(p.tokens.refreshToken, p.user)
    /\ \A r \in Reqs :
          (RefreshDone(r) /\ reqs[r].reply.status = 200)
          => \E p \in pairs :
                /\ p.tokens = reqs[r].tokens
                /\ p.at >= reqs[r].at
                /\ VerifiesAs(reqs[r].tokens.accessToken, p.user)

\* a user's row has changed since a pair was signed, a later pair of the same
\* user carries the changed values, and each pair verifies as it was signed
C30_Witness ==
    \E p, n \in pairs :
        /\ ChangedSince(p)
        /\ n.user.id = p.user.id
        /\ ~ChangedSince(n)
        /\ VerifiesAs(p.tokens.accessToken, p.user)
        /\ VerifiesAs(n.tokens.accessToken, Identity(n.user.id))

(***************************************************************************)
(* Requests to GET /audit with tokens signed earlier, while an operator    *)
(* changes the rows of the users.                                          *)
(***************************************************************************)
NextRoles ==
    \/ \E id \in UserIds : IssueTokens(id)
    \/ \E id \in UserIds : \E row \in Revisions(id) : StoreUpdate(id, row)
    \/ StoreFail
    \/ StoreRecover
    \/ \E r \in Reqs : \E h \in AccessHeaders : AuditStart(r, h)
    \/ \E r \in Reqs : AuditLookup(r)
    \/ \E r \in Reqs : AuditRole(r)
    \/ \E r \in Reqs : AuditHandler(r)
    \/ \E r \in Reqs : Recycle(r)

SpecRoles == Init /\ [][NextRoles]_vars

AuditDone(r) == reqs[r].route = "audit" /\ reqs[r].pc = "done"

\* the step in which the guard of request r gets the answer of its lookup
GuardAnswered(r) == reqs[r].pc = "await" /\ reqs'[r].pc # "await"

\* the step in which requireAdmin runs for request r
RoleChecked(r) == reqs[r].pc = "requireAdmin" /\ reqs'[r].pc # "requireAdmin"

(***************************************************************************)
(* C31.  The identity authGuard attaches is the Credential Store's row for *)
(* the token's userId as it is when the guard's lookup is answered, not    *)
(* the email and role the token carries; requireAdmin then decides on that *)
(* attached role alone: the handler is reached exactly when it is 'admin', *)
(* and the request is answered 403 otherwise.  So a token signed before a  *)
(* role change is authorized against the new role.                         *)
(***************************************************************************)
C31_StoreIdentityAuthorizes ==
    [][\A r \in Reqs :
          /\ (GuardAnswered(r) /\ reqs'[r].user.attached)
             => /\ reqs[r].decoded.userId \in DOMAIN users
                /\ reqs'[r].user.id = reqs[r].decoded.userId
                /\ reqs'[r].user.email = users[reqs[r].decoded.userId].email
                /\ reqs'[r].user.role = users[reqs[r].decoded.userId].role
          /\ (RoleChecked(r) /\ reqs[r].user.attached)
             => /\ reqs'[r].user = reqs[r].user
                /\ reqs'[r].pc = "handler" <=> reqs[r].user.role = "admin"
                /\ reqs'[r].reply.status = 403 <=> reqs[r].user.role # "admin"]_vars

\* a token signed for an administrator who has since been made a viewer is
\* presented to /audit: the identity attached is the viewer's, the answer 403
C31_Witness ==
    \E r \in Reqs : \E p \in pairs :
        /\ AuditDone(r)
        /\ PresentsAccessToken(reqs[r], p)
        /\ p.user.role = "admin"
        /\ reqs[r].decoded.role = "admin"
        /\ reqs[r].user.attached
        /\ reqs[r].user.role = "viewer"
        /\ reqs[r].reply.status = 403

(***************************************************************************)
(* C36.  extractTokenFromHeader never returns the empty string: whenever   *)
(* it returns, the returned token is non-empty and contains no space.      *)
(***************************************************************************)
C36_ReturnedTokenNonEmpty ==
    (call.fn = "extractTokenFromHeader" /\ call.output.ok)
    => /\ call.output.token # <<>>
       /\ \A i \in 1..Len(call.output.token) : call.output.token[i] # Space

\* with the one header 'Bearer ' set aside, every returned token is non-empty
\* and free of spaces
C36_ReturnedTokenNonEmptyButBearerSpace ==
    (call.fn = "extractTokenFromHeader" /\ call.output.ok
        /\ call.input # <<Txt("Bearer"), Space>>)
    => /\ call.output.token # <<>>
       /\ \A i \in 1..Len(call.output.token) : call.output.token[i] # Space

(***************************************************************************)
(* Token pairs signed under more settings of JWT_EXPIRES_IN: the default,  *)
(* the forms '<digits><s|m|h|d>', and strings the ms package reads but the *)
(* pattern of getTokenExpirationTime does not (a week, bare digits,        *)
(* milliseconds), and one the signer rejects.                              *)
(***************************************************************************)
AccessTtlSettings ==
    { Unset, <<"2", "s">>, <<"1", "5", "m">>, <<"1", "h">>, <<"7", "d">>, <<"1", "w">>,
      <<"9", "0">>, <<"5", "0", "0", "0", "m", "s">>, <<"b", "o", "g", "u", "s">> }

InitTtl ==
    /\ env \in { [JWT_EXPIRES_IN |-> a, JWT_REFRESH_EXPIRES_IN |-> Unset] :
                    a \in AccessTtlSettings }
    /\ now = 0
    /\ users = InitUsers
    /\ storeUp = TRUE
    /\ pairs = {}
    /\ reqs = [r \in 1..NumReqs |-> IdleReq]
    /\ probe = NoProbe
    /\ call = NoCall
    /\ served = {}

NextTtl ==
    \/ \E id \in UserIds : IssueTokens(id)
    \/ \E str \in TtlInputs : TtlCall(str)

SpecTtl == InitTtl /\ [][NextTtl]_vars

\* the lifetime of a token in seconds: expiry minus issue time
ActualLifetime(token) == token[1].exp - token[1].iat

\* the setting has the form the pattern of getTokenExpirationTime knows
PatternForm(str) ==
    /\ DigitPrefix(str) >= 1
    /\ Len(str) = DigitPrefix(str) + 1
    /\ str[Len(str)] \in {"s", "m", "h", "d"}

(***************************************************************************)
(* C32.  For every configured access-TTL string that the signer accepts,   *)
(* the expiresIn value returned by generateTokens equals the actual        *)
(* lifetime in seconds (expiry minus issue time) of the access token       *)
(* returned in the same pair.                                              *)
(***************************************************************************)
C32_ExpiresInIsLifetime ==
    \A p \in pairs : p.tokens.expiresIn = ActualLifetime(p.tokens.accessToken)

\* under the settings of the form '<digits><s|m|h|d>' the two agree
C32_ExpiresInIsLifetimeOfPatternForms ==
    \A p \in pairs :
        PatternForm(JWT_EXPIRES_IN)
        => p.tokens.expiresIn = ActualLifetime(p.tokens.accessToken)

(***************************************************************************)
(* The guard on requests that fail more than one of its checks: tokens     *)
(* signed with the service's key for another issuer or audience are among  *)
(* those sent, the clock advances, rows are deleted.                       *)
(***************************************************************************)
OrderHeaders == ClientHeaders \cup { Present(<<Txt("Bearer"), Space>> \o s) : s \in ProbeTokens }

NextOrder ==
    \/ \E t \in Instants : Tick(t)
    \/ \E id \in UserIds : IssueTokens(id)
    \/ \E id \in UserIds : StoreDelete(id)
    \/ StoreFail
    \/ StoreRecover
    \/ \E r \in Reqs : \E h \in OrderHeaders : GuardStart(r, h)
    \/ \E r \in Reqs : GuardLookup(r)
    \/ \E r \in Reqs : Recycle(r)

SpecOrder == Init /\ [][NextOrder]_vars

\* the first check of the guard's order that the request fails at its arrival,
\* the user's existence aside: "none" when it passes all of them
FirstFailing(q) ==
    LET h == q.authorization
        a == h.value[3]
    IN  IF ~h.present \/ h.value = <<>> THEN "presence"
        ELSE IF ~BearerShaped(h) THEN "shape"
        ELSE IF a.kind # "jwt" \/ a.sig # "good" THEN "structure"
        ELSE IF q.at >= a.exp THEN "expiry"
        ELSE IF a.iss # ISSUER \/ a.aud \notin {AUD_USERS, AUD_REFRESH} THEN "claims"
        ELSE "none"

RepliedHeaderRequired(q) ==
    q.reply = Reply(401, "Authorization header is required",
                    "Please provide a valid JWT token in the Authorization header")

RepliedUserNotFound(q) ==
    q.reply = Reply(401, "User not found",
                    "The user associated with this token no longer exists.")

\* the store was not asked on behalf of the request
StoreNotAsked(q) == q.lookup = "none" /\ ~Includes(q.calls, <<"findUnique">>)

(***************************************************************************)
(* C33.  authGuard applies its checks in a fixed order: header presence,   *)
(* header shape, token structure and signature, token expiry, issuer and   *)
(* audience, then the user's existence.  The first check a request fails   *)
(* determines the response, whatever later checks it would fail too, and   *)
(* the Credential Store is asked only for requests whose token passed      *)
(* every token check.                                                      *)
(***************************************************************************)
C33_FirstFailingCheckDecides ==
    \A r \in Reqs :
        LET q == reqs[r]
            f == FirstFailing(q)
        IN  /\ (q.route = "guard" /\ q.pc = "await") => (f = "none" /\ ~q.reply.sent)
            /\ GuardDone(r)
               => /\ f = "presence" => (RepliedHeaderRequired(q) /\ StoreNotAsked(q))
                  /\ f \in {"shape", "structure", "claims"}
                        => (RepliedInvalid(q) /\ StoreNotAsked(q))
                  /\ f = "expiry" => (RepliedExpired(q) /\ StoreNotAsked(q))
                  /\ f = "none"
                        => /\ q.lookup # "none"
                           /\ q.lookup = "absent" => RepliedUserNotFound(q)
                           /\ q.lookup = "found" => (q.user.attached /\ ~q.reply.sent)
                           /\ q.lookup = "error" => q.reply.sent
                  /\ f # "none" => ~q.user.attached

\* an expired token of a user whose row is deleted, signed for another
\* audience besides, is answered as expired and the store is not asked
C33_Witness ==
    \E r \in Reqs :
        LET q == reqs[r]
        IN  /\ GuardDone(r)
            /\ FirstFailing(q) = "expiry"
            /\ q.authorization.value[3].aud \notin {AUD_USERS, AUD_REFRESH}
            /\ q.authorization.value[3].userId \notin DOMAIN users
            /\ RepliedExpired(q)
            /\ StoreNotAsked(q)

(***************************************************************************)
(* The routes of /auth together with GET /audit on one store: accounts are *)
(* registered and logged in to, and the tokens of the logins are presented *)
(* to /auth/me, /auth/logout, /auth/refresh and to /audit, while the store *)
(* loses rows and connections.                                             *)
(***************************************************************************)
AccountEmails == {"New@Ops.io", "new@ops.io", "admin@ops.io", "viewer@ops.io"}

AccountPasswords == {"abcdef", "pw-1", "pw-2"}

NextAccounts ==
    \/ \E id \in UserIds : StoreDelete(id)
    \/ StoreFail
    \/ StoreRecover
    \/ \E r \in Reqs : \E e \in AccountEmails : \E pw \in AccountPasswords : RegisterStart(r, e, pw)
    \/ \E r \in Reqs : RegisterLookup(r)
    \/ \E r \in Reqs : RegisterHash(r)
    \/ \E r \in Reqs : RegisterCreate(r)
    \/ \E r \in Reqs : \E e \in AccountEmails : \E pw \in AccountPasswords : LoginStart(r, e, pw)
    \/ \E r \in Reqs : LoginLookup(r)
    \/ \E r \in Reqs : LoginCompare(r)
    \/ \E r \in Reqs : LoginUpdate(r)
    \/ \E r \in Reqs : \E h \in AccessHeaders : MeStart(r, h)
    \/ \E r \in Reqs : MeGuardLookup(r)
    \/ \E r \in Reqs : MeHandler(r)
    \/ \E r \in Reqs : MeLookup(r)
    \/ \E r \in Reqs : \E h \in AccessHeaders : LogoutStart(r, h)
    \/ \E r \in Reqs : LogoutGuardLookup(r)
    \/ \E r \in Reqs : LogoutHandler(r)
    \/ \E r \in Reqs : \E b \in RefreshBodies : RefreshStart(r, b)
    \/ \E r \in Reqs : RefreshLookup(r)
    \/ \E r \in Reqs : \E h \in AccessHeaders : AuditStart(r, h)
    \/ \E r \in Reqs : AuditLookup(r)
    \/ \E r \in Reqs : AuditRole(r)
    \/ \E r \in Reqs : AuditHandler(r)
    \/ \E r \in Reqs : Recycle(r)

SpecAccounts == Init /\ [][NextAccounts]_vars

\* the request was answered by the handler of /audit: it passed requireAdmin
PassedRequireAdmin(q) == q.route = "audit" /\ Includes(q.ran, <<"handler">>)

\* the step leaves the email and the role of every stored user as they are
RolesAndEmailsKept ==
    \A id \in DOMAIN users :
        id \in DOMAIN users'
        => /\ users'[id].email = users[id].email
           /\ users'[id].role = users[id].role

(***************************************************************************)
(* C34.  Every user created by registerUser has role 'viewer'; no step of  *)
(* a register, login, me, logout or refresh operation changes the role or  *)
(* the email of a stored user; and no request made in the name of a user   *)
(* created by registerUser passes requireAdmin.                            *)
(***************************************************************************)
C34_RegisteredStayViewers ==
    /\ [](\A id \in Registered : users[id].role = "viewer")
    /\ [][RolesAndEmailsKept]_vars
    /\ [](\A r \in Reqs :
            (reqs[r].user.attached /\ reqs[r].user.id \notin UserIds)
            => ~PassedRequireAdmin(reqs[r]))

\* a user created by registerUser has logged in and presented the access
\* token to /audit: the guard attached the user, requireAdmin answered 403
C34_Witness ==
    \E r \in Reqs :
        /\ AuditDone(r)
        /\ reqs[r].user.attached
        /\ reqs[r].user.id \in Registered
        /\ reqs[r].user.role = "viewer"
        /\ reqs[r].reply.status = 403
        /\ ~PassedRequireAdmin(reqs[r])

\* the passwords and password hashes a response to request q must not hold:
\* those of the rows of the store, and the one posted in the body, as typed
\* and as hashed
Secrets(q) ==
    ({ users[id].password : id \in DOMAIN users }
        \cup { q.body.password, BcryptHash(q.body.password), q.row.password }) \ {""}

\* the strings a response carries besides the user object: error, message,
\* and the claims of the tokens it returns
ResponseStrings(q) ==
    {q.reply.error, q.reply.message, q.tokens.tokenType}
    \cup UNION { {t[1].email, t[1].role, t[1].iss, t[1].aud} :
                    t \in {q.tokens.accessToken, q.tokens.refreshToken} \ {<<>>} }

(***************************************************************************)
(* C35.  No response of register, login, me, logout, refresh, /audit or    *)
(* the guards holds a password or a password hash: the user object of a    *)
(* response has no password, and no other string of the response is the    *)
(* password or hash of a stored user or of the request's body.             *)
(***************************************************************************)
C35_NoPasswordInResponses ==
    \A r \in Reqs :
        LET q == reqs[r]
        IN  q.reply.sent
            => /\ q.replyUser.password = ""
               /\ ResponseStrings(q) \cap Secrets(q) = {}
               /\ {q.replyUser.email, q.replyUser.role} \cap Secrets(q) = {}

\* a login is answered 200 with the user object of a row that holds a
\* password hash, which the handler had read together with the row
C35_Witness ==
    \E r \in Reqs :
        LET q == reqs[r]
        IN  /\ LoginDone(r)
            /\ q.reply.status = 200
            /\ q.row.password # ""
            /\ q.replyUser.id = q.row.id
            /\ q.replyUser.id \in DOMAIN users
            /\ users[q.replyUser.id].password = q.row.password
            /\ q.replyUser.password = ""

====
